---- MODULE Spec2Model ----
(***************************************************************************)
(* Stream reconstruction of the Spark provider: the transform/flush pair   *)
(* of SparkChatLanguageModel.doStream (src/src/index.ts) and of            *)
(* SparkCompletionLanguageModel.doStream (src/unnamed/part_002), fed by    *)
(* the chunk schemas that decide what the transform receives.              *)
(*                                                                         *)
(* Conventions.  A nullish JavaScript value is an option: Null is          *)
(* null/undefined/absent, Some(v) is the value v.  Text content is a       *)
(* string; a tool-call argument fragment is a sequence of characters, so   *)
(* that concatenation and JSON parsing are computed.  Every event carries  *)
(* the 1-based index `chunk` of the chunk whose transform step enqueued it *)
(* (0 for flush): a history annotation, not a field of the program.        *)
(***************************************************************************)
EXTENDS Integers, Sequences, FiniteSets, TLC

\* Number of chunks the transport delivers in one stream.
MaxChunks == 3

\* Number.NaN, the usage sentinel (token counts are never negative).
NaN == -1

Null == <<>>
Some(v) == <<v>>
Get(o) == o[1]
\* JavaScript's  o ?? d
OrElse(o, d) == IF o = Null THEN d ELSE o[1]

RECURSIVE Concat(_)
Concat(ss) == IF ss = <<>> THEN <<>> ELSE Head(ss) \o Concat(Tail(ss))

(***************************************************************************)
(* Pure helpers                                                            *)
(***************************************************************************)

\* Mutant: the switch has no case for "tool_calls".
mapSparkFinishReasonWithoutToolCalls(finishReason) ==
  IF finishReason = Some("stop") THEN "stop"
  ELSE IF finishReason = Some("length") THEN "length"
  ELSE "unknown"

\* switch (finishReason) { case "stop" ... default: return "unknown" }; null
\* and undefined are both Null here and both take the default case.
mapSparkFinishReason(finishReason) ==
  IF finishReason = Some("stop") THEN "stop"
  ELSE IF finishReason = Some("length") THEN "length"
  ELSE IF finishReason = Some("tool_calls") THEN "tool-calls"
  ELSE "unknown"

getResponseMetadata(value) ==
  [ id        |-> value.id,
    modelId   |-> value.model,
    timestamp |-> IF value.created # Null THEN Some(Get(value.created) * 1000)
                  ELSE Null ]

RECURSIVE isParsableJson(_)
\* JSON.parse succeeds.  Over the characters "1", "[" and "]" a JSON text is
\* a number (one or more digits 1) or an array, which without a comma holds
\* at most one element.
isParsableJson(s) ==
  IF Len(s) = 0 THEN FALSE
  ELSE IF \A i \in 1..Len(s) : s[i] = "1" THEN TRUE
  ELSE /\ Len(s) >= 2
       /\ s[1] = "["
       /\ s[Len(s)] = "]"
       /\ (Len(s) = 2 \/ isParsableJson(SubSeq(s, 2, Len(s) - 1)))

\* generateId(): a fresh identifier per call, numbered by the calls so far.
generateId(n) == [vendor |-> FALSE, n |-> n + 1]
VendorId(n) == [vendor |-> TRUE, n |-> n]

(***************************************************************************)
(* What the server sends, and what the chunk schema makes of it            *)
(***************************************************************************)

\* The error structure of the model's config: defaultSparkErrorStructure
\* ("default", a flat {object: "error", message, ...}) or a caller-supplied
\* one whose schema keeps an `error` key ("keyed", {error: {message}}).
ErrorStructures == {"default", "keyed"}

NoMeta == [id |-> Null, model |-> Null, created |-> Null]
Meta1 == [id |-> Some("id1"), model |-> Some("lite"), created |-> Some(1)]
Meta2 == [id |-> Some("id2"), model |-> Null, created |-> Some(2)]

RawChunk(meta, choices, usage) ==
  [ shape |-> "chunk", id |-> meta.id, model |-> meta.model,
    created |-> meta.created, choices |-> choices, usage |-> usage ]

RawUsage(p, c) == Some([prompt_tokens |-> p, completion_tokens |-> c])

\* Payloads that are no chunk object: text that is not JSON, and the two
\* shapes of a vendor error object.
RawOther ==
  { [shape |-> "notJson"],
    [shape |-> "flatError", message |-> "boom"],
    [shape |-> "keyedError", message |-> "boom"] }

RawToolCall(id, type, name, arguments) ==
  Some([ id |-> id, type |-> type,
         function |-> Some([name |-> name, arguments |-> arguments]) ])

RawChatChoice(content, tool_calls, finish_reason) ==
  [ delta |-> Some([content |-> content, tool_calls |-> tool_calls]),
    finish_reason |-> finish_reason ]

Fn == Some("function")

\* The chat payloads of the model: every branch of the chunk schema and of
\* the transform has a payload that takes it.
ChatRawChunks ==
  RawOther \cup
  { RawChunk(Meta1, <<>>, RawUsage(Some(3), Some(2))),
    RawChunk(Meta2, <<[delta |-> Null, finish_reason |-> Some("stop")]>>, Null),
    \* a text delta without tool_calls
    RawChunk(NoMeta, <<RawChatChoice(Some("a"), Null, Null)>>, Null),
    \* well-formed tool-call deltas
    RawChunk(Meta1, <<RawChatChoice(Some("a"),
        RawToolCall(Some(VendorId(1)), Fn, Some("f"), Some(<<"[">>)), Null)>>, Null),
    RawChunk(Meta2, <<RawChatChoice(Null,
        RawToolCall(Some(VendorId(1)), Fn, Some("f"), Some(<<"]">>)), Some("length"))>>,
        RawUsage(Null, Some(5))),
    RawChunk(NoMeta, <<RawChatChoice(Some("b"),
        RawToolCall(Some(VendorId(2)), Fn, Some("g"), Some(<<"1">>)), Some("tool_calls"))>>,
        Null),
    RawChunk(NoMeta, <<RawChatChoice(Null,
        RawToolCall(Null, Fn, Some("f"), Null), Some("foo"))>>, Null),
    \* tool-call deltas without a type, without a name, with another type
    RawChunk(NoMeta, <<RawChatChoice(Some("a"),
        RawToolCall(Some(VendorId(1)), Null, Some("f"), Some(<<"1">>)), Null)>>, Null),
    RawChunk(NoMeta, <<RawChatChoice(Some("b"),
        RawToolCall(Some(VendorId(1)), Fn, Null, Some(<<"]">>)), Null)>>, Null),
    RawChunk(NoMeta, <<RawChatChoice(Null,
        RawToolCall(Some(VendorId(1)), Some("other"), Some("f"), Some(<<"1">>)), Null)>>,
        Null) }

RawCompletionChoice(text, finish_reason) ==
  [text |-> text, finish_reason |-> finish_reason, index |-> Some(0)]

CompletionRawChunks ==
  RawOther \cup
  { RawChunk(Meta1, <<>>, RawUsage(Some(3), Some(2))),
    RawChunk(Meta2, <<RawCompletionChoice(Some("a"), Null)>>, Null),
    RawChunk(NoMeta, <<RawCompletionChoice(Some("b"), Some("stop"))>>, Null),
    RawChunk(NoMeta, <<RawCompletionChoice(Some(""), Some("length"))>>,
        RawUsage(Some(1), Some(1))),
    RawChunk(NoMeta, <<RawCompletionChoice(Some("c"), Some("foo"))>>, Null),
    \* a choice without text, a usage without completion_tokens
    RawChunk(NoMeta, <<RawCompletionChoice(Null, Some("stop"))>>, Null),
    RawChunk(NoMeta, <<RawCompletionChoice(Some("a"), Null)>>, RawUsage(Some(3), Null)) }

\* z.object of the chat chunk: every field nullish except choices; a delta,
\* when present, must hold a tool_calls object with a function object, and
\* its type is the literal "function" or absent.
ChatChunkObjectValid(raw) ==
  /\ raw.shape = "chunk"
  /\ \A i \in 1..Len(raw.choices) :
       LET delta == raw.choices[i].delta IN
         delta # Null =>
           /\ Get(delta).tool_calls # Null
           /\ Get(Get(delta).tool_calls).type \in {Null, Some("function")}
           /\ Get(Get(delta).tool_calls).function # Null

\* z.object of the completion chunk: text and index required per choice,
\* both counters required in a usage object.
CompletionChunkObjectValid(raw) ==
  /\ raw.shape = "chunk"
  /\ \A i \in 1..Len(raw.choices) :
       raw.choices[i].text # Null /\ raw.choices[i].index # Null
  /\ raw.usage # Null =>
       /\ Get(raw.usage).prompt_tokens # Null
       /\ Get(raw.usage).completion_tokens # Null

\* The configured error schema accepts the payload.
ErrorSchemaValid(es, raw) ==
  \/ es = "default" /\ raw.shape = "flatError"
  \/ es = "keyed" /\ raw.shape = "keyedError"

\* The value a chunk object parses to: the keys of the schema.
ChunkValue(raw) ==
  [ id |-> raw.id, model |-> raw.model, created |-> raw.created,
    choices |-> Some(raw.choices), usage |-> raw.usage, error |-> Null ]

\* The value an error object parses to: z.object keeps the keys of its
\* schema only, so the default structure yields a value with no `error` key
\* (and, like the keyed one, no choices, id, model, created or usage).
ErrorValue(es, raw) ==
  [ id |-> Null, model |-> Null, created |-> Null, choices |-> Null,
    usage |-> Null,
    error |-> IF es = "keyed" THEN Some([message |-> raw.message]) ELSE Null ]

ParseFailure == [success |-> FALSE, error |-> "parse-failure"]
ParseSuccess(value) == [success |-> TRUE, value |-> value]

\* createEventSourceResponseHandler(z.union([chunk object, errorSchema])).
ParseChatChunk(es, raw) ==
  IF ChatChunkObjectValid(raw) THEN ParseSuccess(ChunkValue(raw))
  ELSE IF ErrorSchemaValid(es, raw) THEN ParseSuccess(ErrorValue(es, raw))
  ELSE ParseFailure

ParseCompletionChunk(es, raw) ==
  IF CompletionChunkObjectValid(raw) THEN ParseSuccess(ChunkValue(raw))
  ELSE IF ErrorSchemaValid(es, raw) THEN ParseSuccess(ErrorValue(es, raw))
  ELSE ParseFailure

(***************************************************************************)
(* Prompts (LanguageModelV1Prompt) and the values a call returns or throws *)
(***************************************************************************)

\* The outcome of a call: the value it returns or the error it throws.
Returned(value) == [ok |-> TRUE, value |-> value]
Thrown(error) == [ok |-> FALSE, error |-> error]

\* {} : an object without keys.
EmptyObject == [key \in {} |-> TRUE]

\* JSON values (args of a tool call, result of a tool), tagged by kind; an
\* object is a sequence of <<key, value>> members.
JNull == [json |-> "null"]
JNumber(n) == [json |-> "number", n |-> n]
JString(s) == [json |-> "string", s |-> s]
JArray(items) == [json |-> "array", items |-> items]
JObject(members) == [json |-> "object", members |-> members]

RECURSIVE JSONStringify(_)
RECURSIVE JSONJoin(_, _)
\* JSON.stringify(value): the compact JSON text of the value.
JSONStringify(value) ==
  CASE value.json = "null" -> "null"
    [] value.json = "number" -> ToString(value.n)
    [] value.json = "string" -> "\"" \o value.s \o "\""
    [] value.json = "array" -> "[" \o JSONJoin(value.items, FALSE) \o "]"
    [] value.json = "object" -> "{" \o JSONJoin(value.members, TRUE) \o "}"

JSONJoin(items, keyed) ==
  IF items = <<>> THEN ""
  ELSE LET head == IF keyed
                   THEN "\"" \o Head(items)[1] \o "\":" \o JSONStringify(Head(items)[2])
                   ELSE JSONStringify(Head(items))
       IN IF Len(items) = 1 THEN head
          ELSE head \o "," \o JSONJoin(Tail(items), keyed)

\* message?.providerMetadata?.spark ?? {}
getSparkMetadata(message) ==
  IF message.providerMetadata = Null THEN EmptyObject
  ELSE OrElse(Get(message.providerMetadata).spark, EmptyObject)

\* The base64 alphabet, and the digit of a 6-bit value.
Base64Alphabet ==
  "ABCDEFGHIJKLMNOPQRSTUVWXYZabcdefghijklmnopqrstuvwxyz0123456789+/"

Base64Digit(n) == SubSeq(Base64Alphabet, n + 1, n + 1)

RECURSIVE convertUint8ArrayToBase64(_)
\* btoa of the bytes: three bytes make four digits, a last group of one or
\* two bytes is padded with "=".
convertUint8ArrayToBase64(bytes) ==
  IF Len(bytes) = 0 THEN ""
  ELSE IF Len(bytes) = 1
  THEN Base64Digit(bytes[1] \div 4) \o Base64Digit((bytes[1] % 4) * 16) \o "=="
  ELSE IF Len(bytes) = 2
  THEN Base64Digit(bytes[1] \div 4)
       \o Base64Digit((bytes[1] % 4) * 16 + bytes[2] \div 16)
       \o Base64Digit((bytes[2] % 16) * 4) \o "="
  ELSE Base64Digit(bytes[1] \div 4)
       \o Base64Digit((bytes[1] % 4) * 16 + bytes[2] \div 16)
       \o Base64Digit((bytes[2] % 16) * 4 + bytes[3] \div 64)
       \o Base64Digit(bytes[3] % 64)
       \o convertUint8ArrayToBase64(SubSeq(bytes, 4, Len(bytes)))

\* content.map(...) where the callback may throw, given the outcome of the
\* callback on each part: the error of the first part that throws, or the
\* sequence of the values.
MapParts(results) ==
  LET failed == {i \in 1..Len(results) : ~results[i].ok}
  IN IF failed # {}
     THEN Thrown(results[CHOOSE i \in failed : \A j \in failed : i <= j].error)
     ELSE Returned([i \in 1..Len(results) |-> results[i].value])

RECURSIVE Join(_)
\* Array.prototype.join("") of strings.
Join(strings) == IF strings = <<>> THEN "" ELSE Head(strings) \o Join(Tail(strings))

(***************************************************************************)
(* convertToSparkChatMessages (src/src/convert-to-spark-message.ts)        *)
(***************************************************************************)

\* The url of an image part: the URL itself, or a data URL of the bytes.
ImageUrl(part) ==
  IF part.image.isURL THEN part.image.href
  ELSE "data:" \o OrElse(part.mimeType, "image/jpeg") \o ";base64,"
       \o convertUint8ArrayToBase64(part.image.bytes)

\* Mutant: the fields the mapper builds are spread after the metadata.
ChatUserPartFieldsWin(part) ==
  LET partMetadata == getSparkMetadata(part) IN
    CASE part.type = "text" ->
           Returned([type |-> "text", text |-> part.text] @@ partMetadata)
      [] part.type = "image" ->
           Returned([type |-> "image_url", image_url |-> [url |-> ImageUrl(part)]]
                    @@ partMetadata)
      [] OTHER -> Thrown("UnsupportedFunctionalityError")

\* One part of a user message with several parts (or one that is no text).
ChatUserPart(part) ==
  LET partMetadata == getSparkMetadata(part) IN
    CASE part.type = "text" ->
           Returned(partMetadata @@ [type |-> "text", text |-> part.text])
      [] part.type = "image" ->
           Returned(partMetadata @@
                    [type |-> "image_url", image_url |-> [url |-> ImageUrl(part)]])
      [] OTHER -> Thrown("UnsupportedFunctionalityError")

\* case "user"
ChatUserMessage(content, metadata) ==
  IF Len(content) = 1 /\ content[1].type = "text"
  THEN Returned(<< getSparkMetadata(content[1])
                   @@ [role |-> "user", content |-> content[1].text] >>)
  ELSE LET parts == MapParts([i \in 1..Len(content) |-> ChatUserPart(content[i])])
       IN IF parts.ok
          THEN Returned(<< metadata @@ [role |-> "user", content |-> parts.value] >>)
          ELSE parts

\* let toolCalls = {type: 'function', function: {arguments: '', name: ''}}
InitialToolCalls ==
  [type |-> "function", function |-> [arguments |-> "", name |-> ""]]

\* Mutant: a tool-call part is kept only while none was seen before it.
AssistantPartKeepsFirst(folded, part) ==
  LET partMetadata == getSparkMetadata(part) IN
    CASE part.type = "text" ->
           Returned([folded EXCEPT !.text = folded.text \o part.text])
      [] part.type = "tool-call" ->
           Returned([folded EXCEPT !.toolCalls =
             IF folded.toolCalls.function.name # "" THEN folded.toolCalls
             ELSE partMetadata @@
                  [ type |-> "function",
                    function |-> [ name |-> part.toolName,
                                   arguments |-> JSONStringify(part.args) ] ]])
      [] OTHER -> Thrown("Error")

\* switch (part.type) in the loop over the parts of an assistant message.
AssistantPart(folded, part) ==
  LET partMetadata == getSparkMetadata(part) IN
    CASE part.type = "text" ->
           Returned([folded EXCEPT !.text = folded.text \o part.text])
      [] part.type = "tool-call" ->
           Returned([folded EXCEPT !.toolCalls =
             partMetadata @@
             [ type |-> "function",
               function |-> [ name |-> part.toolName,
                              arguments |-> JSONStringify(part.args) ] ]])
      [] OTHER -> Thrown("Error")

RECURSIVE AssistantParts(_, _)
\* for (const part of content): the text and the toolCalls the loop leaves.
AssistantParts(content, folded) ==
  IF content = <<>> THEN Returned(folded)
  ELSE LET next == AssistantPart(folded, Head(content))
       IN IF next.ok THEN AssistantParts(Tail(content), next.value) ELSE next

\* case "assistant".  tool_calls: toolCalls ? toolCalls : undefined, and an
\* object is always truthy.
ChatAssistantMessage(content, metadata) ==
  LET folded == AssistantParts(content, [text |-> "", toolCalls |-> InitialToolCalls])
  IN IF folded.ok
     THEN Returned(<< metadata @@
                      [ role |-> "assistant", content |-> folded.value.text,
                        tool_calls |-> Some(folded.value.toolCalls) ] >>)
     ELSE folded

\* Mutant: the tool responses are pushed in reverse.
ChatToolMessagesReversed(content) ==
  Returned([ i \in 1..Len(content) |->
               getSparkMetadata(content[Len(content) + 1 - i]) @@
               [ role |-> "tool",
                 tool_call_id |-> content[Len(content) + 1 - i].toolCallId,
                 content |-> JSONStringify(content[Len(content) + 1 - i].result) ] ])

\* case "tool": one message per tool response.
ChatToolMessages(content) ==
  Returned([ i \in 1..Len(content) |->
               getSparkMetadata(content[i]) @@
               [ role |-> "tool", tool_call_id |-> content[i].toolCallId,
                 content |-> JSONStringify(content[i].result) ] ])

\* The messages one prompt message is converted to.
ChatMessagesOf(message) ==
  LET metadata == getSparkMetadata(message) IN
    CASE message.role = "system" ->
           Returned(<< metadata @@ [role |-> "system", content |-> message.content] >>)
      [] message.role = "user" -> ChatUserMessage(message.content, metadata)
      [] message.role = "assistant" -> ChatAssistantMessage(message.content, metadata)
      [] message.role = "tool" -> ChatToolMessages(message.content)
      [] OTHER -> Thrown("Error")

RECURSIVE ChatMessagesFrom(_, _)
ChatMessagesFrom(prompt, messages) ==
  IF prompt = <<>> THEN Returned(messages)
  ELSE LET converted == ChatMessagesOf(Head(prompt))
       IN IF converted.ok
          THEN ChatMessagesFrom(Tail(prompt), messages \o converted.value)
          ELSE converted

convertToSparkChatMessages(prompt) == ChatMessagesFrom(prompt, <<>>)

(***************************************************************************)
(* convertToSparkCompletionPrompt                                          *)
(* (src/src/convert-to-spark-completion-prompt.ts)                         *)
(***************************************************************************)

\* The default labels of the transcript.
user == "user"
assistant == "assistant"

CompletionUserPart(part) ==
  CASE part.type = "text" -> Returned(part.text)
    [] part.type = "image" -> Thrown("UnsupportedFunctionalityError")
    [] OTHER -> Thrown("Error")

\* A part of another type falls out of the switch: map yields undefined,
\* which join renders as the empty string.
CompletionAssistantPart(part) ==
  CASE part.type = "text" -> Returned(part.text)
    [] part.type = "tool-call" -> Thrown("UnsupportedFunctionalityError")
    [] OTHER -> Returned("")

\* Mutant: a system message inside the loop is rendered, not rejected.
CompletionMessageTextWithSystem(message) ==
  CASE message.role = "system" -> Returned(message.content \o "\n\n")
    [] message.role = "user" ->
         LET parts == MapParts([i \in 1..Len(message.content) |->
                                  CompletionUserPart(message.content[i])])
         IN IF parts.ok
            THEN Returned(user \o ":\n" \o Join(parts.value) \o "\n\n")
            ELSE parts
    [] message.role = "assistant" ->
         LET parts == MapParts([i \in 1..Len(message.content) |->
                                  CompletionAssistantPart(message.content[i])])
         IN IF parts.ok
            THEN Returned(assistant \o ":\n" \o Join(parts.value) \o "\n\n")
            ELSE parts
    [] message.role = "tool" -> Thrown("UnsupportedFunctionalityError")
    [] OTHER -> Thrown("Error")

\* switch (role) in the loop: the text one message adds, or what it throws.
CompletionMessageText(message) ==
  CASE message.role = "system" -> Thrown("InvalidPromptError")
    [] message.role = "user" ->
         LET parts == MapParts([i \in 1..Len(message.content) |->
                                  CompletionUserPart(message.content[i])])
         IN IF parts.ok
            THEN Returned(user \o ":\n" \o Join(parts.value) \o "\n\n")
            ELSE parts
    [] message.role = "assistant" ->
         LET parts == MapParts([i \in 1..Len(message.content) |->
                                  CompletionAssistantPart(message.content[i])])
         IN IF parts.ok
            THEN Returned(assistant \o ":\n" \o Join(parts.value) \o "\n\n")
            ELSE parts
    [] message.role = "tool" -> Thrown("UnsupportedFunctionalityError")
    [] OTHER -> Thrown("Error")

RECURSIVE CompletionTextFrom(_, _)
\* for (const {role, content} of prompt): the text after the loop.
CompletionTextFrom(prompt, text) ==
  IF prompt = <<>> THEN Returned(text)
  ELSE LET added == CompletionMessageText(Head(prompt))
       IN IF added.ok
          THEN CompletionTextFrom(Tail(prompt), text \o added.value)
          ELSE added

\* Mutant: there is no fast path, every prompt is rendered as a transcript.
convertToSparkCompletionPromptAsTranscript(prompt, inputFormat) ==
  IF prompt = <<>> THEN Thrown("TypeError")
  ELSE LET system == prompt[1].role = "system"
           start == IF system THEN prompt[1].content \o "\n\n" ELSE ""
           rest == IF system THEN Tail(prompt) ELSE prompt
           text == CompletionTextFrom(rest, start)
       IN IF text.ok
          THEN Returned([ prompt |-> text.value \o assistant \o ":\n",
                          stopSequences |-> Some(<<"\n" \o user \o ":">>) ])
          ELSE text

convertToSparkCompletionPrompt(prompt, inputFormat) ==
  IF /\ inputFormat = "prompt"
     /\ Len(prompt) = 1
     /\ prompt[1].role = "user"
     /\ Len(prompt[1].content) = 1
     /\ prompt[1].content[1].type = "text"
  THEN Returned([prompt |-> prompt[1].content[1].text, stopSequences |-> Null])
  ELSE IF prompt = <<>> THEN Thrown("TypeError")
  ELSE LET system == prompt[1].role = "system"
           start == IF system THEN prompt[1].content \o "\n\n" ELSE ""
           rest == IF system THEN Tail(prompt) ELSE prompt
           text == CompletionTextFrom(rest, start)
       IN IF text.ok
          THEN Returned([ prompt |-> text.value \o assistant \o ":\n",
                          stopSequences |-> Some(<<"\n" \o user \o ":">>) ])
          ELSE text

(***************************************************************************)
(* prepareTools (src/src/spark-prepare-tools.ts) and getArgs               *)
(***************************************************************************)

FunctionTool(name) ==
  [type |-> "function", name |-> name, description |-> Null, parameters |-> "schema"]

\* A function tool with a description.
DescribedTool(name) ==
  [ type |-> "function", name |-> name, description |-> Some("d"),
    parameters |-> "schema2" ]

ProviderDefinedTool(name) ==
  [type |-> "provider-defined", id |-> "spark.search", name |-> name]

\* Mutant: the description of the tool is not passed on.
SparkCompatToolWithoutDescription(tool) ==
  [ type |-> "function",
    function |-> [ name |-> tool.name, description |-> Null,
                   parameters |-> tool.parameters ] ]

\* The Spark form of a function tool.
SparkCompatTool(tool) ==
  [ type |-> "function",
    function |-> [ name |-> tool.name, description |-> tool.description,
                   parameters |-> tool.parameters ] ]

prepareTools(mode) ==
  LET tools == IF mode.tools # Null /\ Len(Get(mode.tools)) > 0
               THEN mode.tools ELSE Null
  IN IF tools = Null
     THEN Returned([tools |-> Null, tool_choice |-> Null, toolWarnings |-> <<>>])
     ELSE
       LET functionTools ==
             SelectSeq(Get(tools), LAMBDA tool : tool.type # "provider-defined")
           providerTools ==
             SelectSeq(Get(tools), LAMBDA tool : tool.type = "provider-defined")
           sparkCompatTools ==
             [i \in 1..Len(functionTools) |-> SparkCompatTool(functionTools[i])]
           toolWarnings ==
             [i \in 1..Len(providerTools) |->
                [type |-> "unsupported-tool", tool |-> providerTools[i]]]
           prepared(tool_choice) ==
             Returned([ tools |-> Some(sparkCompatTools), tool_choice |-> tool_choice,
                        toolWarnings |-> toolWarnings ])
       IN IF mode.toolChoice = Null THEN prepared(Null)
          ELSE LET type == Get(mode.toolChoice).type IN
            CASE type \in {"auto", "none", "required"} -> prepared(Some([choice |-> type]))
              [] type = "tool" ->
                   prepared(Some([ type |-> "function",
                                   function |->
                                     [name |-> Get(mode.toolChoice).toolName] ]))
              [] OTHER -> Thrown("UnsupportedFunctionalityError")

\* The warnings getArgs of the chat model collects before it builds the
\* arguments.
ChatSettingWarnings(options, supportsStructuredOutputs) ==
  (IF options.topK # Null
   THEN <<[type |-> "unsupported-setting", setting |-> "topK"]>> ELSE <<>>)
  \o (IF /\ options.responseFormat # Null
         /\ Get(options.responseFormat).type = "json"
         /\ Get(options.responseFormat).schema # Null
         /\ ~supportsStructuredOutputs
      THEN <<[type |-> "unsupported-setting", setting |-> "responseFormat"]>>
      ELSE <<>>)

\* response_format: json_schema with structured outputs and a schema,
\* json_object otherwise.
JsonResponseFormat(supportsStructuredOutputs, format) ==
  IF supportsStructuredOutputs /\ format.schema # Null
  THEN [ type |-> "json_schema",
         json_schema |-> [ schema |-> Get(format.schema),
                           name |-> OrElse(format.name, "response"),
                           description |-> format.description ] ]
  ELSE [type |-> "json_object"]

\* SparkChatLanguageModel.getArgs
ChatGetArgs(options, supportsStructuredOutputs) ==
  LET warnings == ChatSettingWarnings(options, supportsStructuredOutputs)
      messages == convertToSparkChatMessages(options.prompt)
      baseArgs(tools, tool_choice, response_format) ==
        [ messages |-> messages.value, tools |-> tools,
          tool_choice |-> tool_choice, response_format |-> response_format ]
      response_format ==
        IF options.responseFormat # Null /\ Get(options.responseFormat).type = "json"
        THEN Some(JsonResponseFormat(supportsStructuredOutputs,
                                     Get(options.responseFormat)))
        ELSE Null
      mode == options.mode
  IN IF ~messages.ok THEN messages
     ELSE CASE mode.type = "regular" ->
                 LET prepared == prepareTools(mode) IN
                   IF prepared.ok
                   THEN Returned(
                          [ args |-> baseArgs(prepared.value.tools,
                                              prepared.value.tool_choice,
                                              response_format),
                            warnings |-> warnings \o prepared.value.toolWarnings ])
                   ELSE prepared
            [] mode.type = "object-json" ->
                 Returned(
                   [ args |-> baseArgs(Null, Null,
                       Some(JsonResponseFormat(supportsStructuredOutputs, mode))),
                     warnings |-> warnings ])
            [] mode.type = "object-tool" ->
                 Returned(
                   [ args |-> baseArgs(
                       Some(<<SparkCompatTool(mode.tool)>>),
                       Some([type |-> "function", function |-> [name |-> mode.tool.name]]),
                       response_format),
                     warnings |-> warnings ])
            [] OTHER -> Thrown("Error")

\* The warnings getArgs of the completion model collects.
CompletionSettingWarnings(options) ==
  (IF options.topK # Null
   THEN <<[type |-> "unsupported-setting", setting |-> "topK"]>> ELSE <<>>)
  \o (IF options.responseFormat # Null /\ Get(options.responseFormat).type # "text"
      THEN <<[type |-> "unsupported-setting", setting |-> "responseFormat"]>>
      ELSE <<>>)

\* Mutant: a tool choice is let through in regular mode.
CompletionGetArgsAllowsToolChoice(options) ==
  LET warnings == CompletionSettingWarnings(options)
      converted == convertToSparkCompletionPrompt(options.prompt, options.inputFormat)
      stop == OrElse(converted.value.stopSequences, <<>>)
              \o OrElse(options.stopSequences, <<>>)
      mode == options.mode
  IN IF ~converted.ok THEN converted
     ELSE CASE mode.type = "regular" ->
                 IF mode.tools # Null /\ Len(Get(mode.tools)) > 0
                 THEN Thrown("UnsupportedFunctionalityError")
                 ELSE Returned(
                        [ args |-> [ prompt |-> converted.value.prompt,
                                     stop |-> IF stop # <<>> THEN Some(stop) ELSE Null ],
                          warnings |-> warnings ])
            [] mode.type = "object-json" -> Thrown("UnsupportedFunctionalityError")
            [] mode.type = "object-tool" -> Thrown("UnsupportedFunctionalityError")
            [] OTHER -> Thrown("Error")

\* SparkCompletionLanguageModel.getArgs
CompletionGetArgs(options) ==
  LET warnings == CompletionSettingWarnings(options)
      converted == convertToSparkCompletionPrompt(options.prompt, options.inputFormat)
      stop == OrElse(converted.value.stopSequences, <<>>)
              \o OrElse(options.stopSequences, <<>>)
      mode == options.mode
  IN IF ~converted.ok THEN converted
     ELSE CASE mode.type = "regular" ->
                 IF mode.tools # Null /\ Len(Get(mode.tools)) > 0
                 THEN Thrown("UnsupportedFunctionalityError")
                 ELSE IF mode.toolChoice # Null
                 THEN Thrown("UnsupportedFunctionalityError")
                 ELSE Returned(
                        [ args |-> [ prompt |-> converted.value.prompt,
                                     stop |-> IF stop # <<>> THEN Some(stop) ELSE Null ],
                          warnings |-> warnings ])
            [] mode.type = "object-json" -> Thrown("UnsupportedFunctionalityError")
            [] mode.type = "object-tool" -> Thrown("UnsupportedFunctionalityError")
            [] OTHER -> Thrown("Error")

(***************************************************************************)
(* doGenerate and doStream as calls: argument construction, the HTTP POST, *)
(* the decoding of the response and the simulated stream                   *)
(***************************************************************************)

\* toolCalls of the result: message.tool_calls ? [{...}] : undefined
GeneratedToolCalls(message, ids) ==
  IF message.tool_calls # Null
  THEN Some(<< [ toolCallType |-> "function",
                 toolCallId |-> OrElse(Get(message.tool_calls).id, generateId(ids)),
                 toolName |-> Get(message.tool_calls).function.name,
                 args |-> Get(message.tool_calls).function.arguments ] >>)
  ELSE Null

\* usage: {promptTokens: body.usage?.prompt_tokens ?? NaN, ...}
GeneratedUsage(body) ==
  [ promptTokens |->
      IF body.usage = Null THEN NaN ELSE OrElse(Get(body.usage).prompt_tokens, NaN),
    completionTokens |->
      IF body.usage = Null THEN NaN ELSE OrElse(Get(body.usage).completion_tokens, NaN) ]

\* What SparkChatLanguageModel.doGenerate returns for a response body that
\* passed SparkChatResponseSchema; choices[0] of an empty list is undefined
\* and reading its message throws.
ChatGenerateResult(body, warnings) ==
  IF Len(body.choices) = 0 THEN Thrown("TypeError")
  ELSE LET choice == body.choices[1] IN
    Returned([ text |-> choice.message.content,
               toolCalls |-> GeneratedToolCalls(choice.message, 0),
               finishReason |-> mapSparkFinishReason(choice.finish_reason),
               usage |-> GeneratedUsage(body),
               response |-> getResponseMetadata(body),
               logprobs |-> Null,
               providerMetadata |-> Null,
               warnings |-> warnings ])

\* What SparkCompletionLanguageModel.doGenerate returns.
CompletionGenerateResult(body, warnings) ==
  IF Len(body.choices) = 0 THEN Thrown("TypeError")
  ELSE LET choice == body.choices[1] IN
    Returned([ text |-> Some(choice.text),
               toolCalls |-> Null,
               finishReason |-> mapSparkFinishReason(choice.finish_reason),
               usage |-> GeneratedUsage(body),
               response |-> getResponseMetadata(body),
               logprobs |-> Null,
               providerMetadata |-> Null,
               warnings |-> warnings ])

\* Mutant: the simulated stream leaves out the tool calls of the result.
SimulatedEventsWithoutToolCalls(result) ==
  << result.response @@ [type |-> "response-metadata"] >>
  \o (IF result.text # Null /\ Get(result.text) # ""
      THEN <<[type |-> "text-delta", textDelta |-> Get(result.text)]>> ELSE <<>>)
  \o << [ type |-> "finish", finishReason |-> result.finishReason,
          usage |-> result.usage, logprobs |-> result.logprobs,
          providerMetadata |-> result.providerMetadata ] >>

\* start(controller) of the simulated stream: the events it enqueues
\* before it closes.  `if (result.text)` skips an absent and an empty text.
SimulatedEvents(result) ==
  << result.response @@ [type |-> "response-metadata"] >>
  \o (IF result.text # Null /\ Get(result.text) # ""
      THEN <<[type |-> "text-delta", textDelta |-> Get(result.text)]>> ELSE <<>>)
  \o (IF result.toolCalls # Null
      THEN [ i \in 1..Len(Get(result.toolCalls)) |->
               Get(result.toolCalls)[i] @@ [type |-> "tool-call"] ]
      ELSE <<>>)
  \o << [ type |-> "finish", finishReason |-> result.finishReason,
          usage |-> result.usage, logprobs |-> result.logprobs,
          providerMetadata |-> result.providerMetadata ] >>

\* Mutant: the request is sent before its arguments are built.
StepsPostFirst(facade, method, simulateStreaming) ==
  IF method = "doGenerate" THEN <<"postJsonToApi", "getArgs", "result">>
  ELSE IF facade = "chat" /\ simulateStreaming
  THEN <<"postJsonToApi", "getArgs", "result", "simulatedStream">>
  ELSE <<"postJsonToApi", "getArgs", "pipeThrough">>

\* The steps of a call in program order.  doStream of a chat model with
\* settings.simulateStreaming awaits this.doGenerate(options) and builds
\* the simulated stream from its result.
Steps(facade, method, simulateStreaming) ==
  IF method = "doGenerate" THEN <<"getArgs", "postJsonToApi", "result">>
  ELSE IF facade = "chat" /\ simulateStreaming
  THEN <<"getArgs", "postJsonToApi", "result", "simulatedStream">>
  ELSE <<"getArgs", "postJsonToApi", "pipeThrough">>

(***************************************************************************)
(* The prompts of the conversion specification                             *)
(***************************************************************************)

\* Number of content parts in the message under conversion.
MaxParts == 3

\* providerMetadata: absent, or with a spark bag.  The keys of the bag are
\* none of those the mappers build.
NoMetadata == Null
SparkMetadata == Some([spark |-> Some([cache |-> TRUE])])

TextPart(text, providerMetadata) ==
  [type |-> "text", text |-> text, providerMetadata |-> providerMetadata]

ImagePart(image, mimeType) ==
  [type |-> "image", image |-> image, mimeType |-> mimeType,
   providerMetadata |-> NoMetadata]

FilePart == [type |-> "file", providerMetadata |-> NoMetadata]

ReasoningPart == [type |-> "reasoning", text |-> "r", providerMetadata |-> NoMetadata]

ToolCallPart(toolCallId, toolName, args, providerMetadata) ==
  [ type |-> "tool-call", toolCallId |-> toolCallId, toolName |-> toolName,
    args |-> args, providerMetadata |-> providerMetadata ]

ToolResultPart(toolCallId, toolName, result, providerMetadata) ==
  [ type |-> "tool-result", toolCallId |-> toolCallId, toolName |-> toolName,
    result |-> result, providerMetadata |-> providerMetadata ]

Message(role, content, providerMetadata) ==
  [role |-> role, content |-> content, providerMetadata |-> providerMetadata]

\* The sequences of at most n elements of S.
SeqsUpTo(S, n) == UNION {[1..k -> S] : k \in 0..n}

UserParts ==
  { TextPart("u", NoMetadata), TextPart("v", SparkMetadata),
    ImagePart([isURL |-> FALSE, bytes |-> <<104, 105>>], Null), FilePart }

AssistantPartsOfPrompt ==
  { TextPart("a", NoMetadata), TextPart("b", NoMetadata),
    ToolCallPart("c1", "f", JObject(<< <<"a", JNumber(1)>> >>), NoMetadata),
    ToolCallPart("c2", "g", JArray(<<JNumber(1), JString("s")>>), SparkMetadata),
    ReasoningPart }

ToolResults ==
  { ToolResultPart("c1", "f", JObject(<< <<"ok", JNumber(1)>> >>), NoMetadata),
    ToolResultPart("c2", "g", JString("s"), NoMetadata),
    ToolResultPart("c3", "f", JNull, SparkMetadata) }

\* The message under conversion: any role, any content of at most MaxParts
\* parts, with or without spark metadata.  (System messages, whose content
\* is a string, are kept apart from those whose content is a list.)
SystemFocusMessages ==
  { Message("system", "S", providerMetadata) :
      providerMetadata \in {NoMetadata, SparkMetadata} }

ListFocusMessages ==
  { Message("user", content, providerMetadata) :
      content \in SeqsUpTo(UserParts, MaxParts),
      providerMetadata \in {NoMetadata, SparkMetadata} }
  \cup { Message("assistant", content, providerMetadata) :
           content \in SeqsUpTo(AssistantPartsOfPrompt, MaxParts),
           providerMetadata \in {NoMetadata, SparkMetadata} }
  \cup { Message("tool", content, providerMetadata) :
           content \in SeqsUpTo(ToolResults, MaxParts),
           providerMetadata \in {NoMetadata, SparkMetadata} }

\* The messages before and after it, by number.
MessagesBefore(n) ==
  CASE n = 0 -> <<>>
    [] n = 1 -> << Message("system", "T", NoMetadata) >>
    [] n = 2 -> << Message("user", <<TextPart("q", NoMetadata)>>, NoMetadata) >>

MessagesAfter(n) ==
  CASE n = 0 -> <<>>
    [] n = 1 -> << Message("system", "T", NoMetadata) >>
    [] n = 2 -> << Message("user",
                     << TextPart("q", NoMetadata),
                        ImagePart([isURL |-> TRUE, href |-> "http://x/i.png"],
                                  Some("image/png")) >>,
                     SparkMetadata) >>
    [] n = 3 -> << Message("assistant", <<TextPart("z", NoMetadata)>>, NoMetadata) >>
    [] n = 4 -> << Message("tool",
                     <<ToolResultPart("c9", "f", JNumber(7), NoMetadata)>>,
                     NoMetadata) >>

\* p is a prompt of the specification: empty, or a message under conversion
\* between at most one message before and one after.
IsPrompt(p) ==
  \/ p = <<>>
  \/ \E before \in 0..2, after \in 0..4 :
       \/ \E message \in SystemFocusMessages :
            p = MessagesBefore(before) \o <<message>> \o MessagesAfter(after)
       \/ \E message \in ListFocusMessages :
            p = MessagesBefore(before) \o <<message>> \o MessagesAfter(after)

InputFormats == {"prompt", "messages"}

(***************************************************************************)
(* The inputs of the call specification                                    *)
(***************************************************************************)

\* The prompts of a call, by number: a user text; a conversation with
\* every role; a system message behind a user message; a user message with
\* a file part; a user message with a text and an image.
CallPrompt(n) ==
  CASE n = 1 -> << Message("user", <<TextPart("hi", NoMetadata)>>, NoMetadata) >>
    [] n = 2 ->
         << Message("system", "S", NoMetadata),
            Message("user", <<TextPart("q", NoMetadata)>>, NoMetadata),
            Message("assistant",
              << TextPart("a", NoMetadata),
                 ToolCallPart("c1", "f", JObject(<<>>), NoMetadata) >>, NoMetadata),
            Message("tool", <<ToolResultPart("c1", "f", JNumber(7), NoMetadata)>>,
              NoMetadata) >>
    [] n = 3 -> << Message("user", <<TextPart("q", NoMetadata)>>, NoMetadata),
                   Message("system", "T", NoMetadata) >>
    [] n = 4 -> << Message("user", <<FilePart>>, NoMetadata) >>
    [] n = 5 -> << Message("user",
                     << TextPart("q", NoMetadata),
                        ImagePart([isURL |-> FALSE, bytes |-> <<104>>], Some("image/png")) >>,
                     NoMetadata) >>

CallPromptCount == 5

RegularMode(tools, toolChoice) ==
  [type |-> "regular", tools |-> tools, toolChoice |-> toolChoice]

\* options.mode: regular with and without tools and tool choice, the two
\* object modes, and a type the switch does not know.
Modes ==
  { RegularMode(Null, Null),
    RegularMode(Some(<<>>), Null),
    RegularMode(Some(<<FunctionTool("f")>>), Null),
    RegularMode(Some(<<FunctionTool("f"), ProviderDefinedTool("s")>>),
                Some([type |-> "auto"])),
    RegularMode(Some(<<ProviderDefinedTool("s")>>),
                Some([type |-> "tool", toolName |-> "f"])),
    RegularMode(Some(<< ProviderDefinedTool("s"), DescribedTool("g"),
                        ProviderDefinedTool("t"), FunctionTool("f") >>), Null),
    RegularMode(Some(<<DescribedTool("g"), FunctionTool("f")>>),
                Some([type |-> "none"])),
    RegularMode(Null, Some([type |-> "required"])),
    RegularMode(Some(<<FunctionTool("f")>>), Some([type |-> "other"])),
    [type |-> "object-json", schema |-> Some("schema"), name |-> Null,
     description |-> Null],
    [type |-> "object-tool", tool |-> FunctionTool("f")],
    [type |-> "other"] }

ResponseFormats ==
  { Null,
    Some([type |-> "json", schema |-> Some("schema"), name |-> Null,
          description |-> Null]) }

\* The bodies of a successful non-streaming response that pass
\* SparkChatResponseSchema.
ChatResponseBodies ==
  { [ id |-> Some("id1"), model |-> Some("lite"), created |-> Some(1),
      choices |-> choices, usage |-> usage ] :
      choices \in {<<>>} \cup
        { << [ message |-> [content |-> content, tool_calls |-> tool_calls],
               finish_reason |-> finish_reason ] >> :
            content \in {Null, Some(""), Some("hi")},
            tool_calls \in
              { Null,
                Some([ id |-> Some(VendorId(1)), type |-> "function",
                       function |-> [name |-> "f", arguments |-> "{\"a\":1}"] ]),
                Some([ id |-> Null, type |-> "function",
                       function |-> [name |-> "g", arguments |-> "[]"] ]) },
            finish_reason \in {Null, Some("stop"), Some("tool_calls")} },
      usage \in {Null, RawUsage(Some(3), Null)} }

\* Those that pass SparkCompletionResponseSchema.
CompletionResponseBodies ==
  { [ id |-> Some("id1"), model |-> Null, created |-> Some(1),
      choices |-> choices, usage |-> usage ] :
      choices \in {<<>>} \cup
        { <<[text |-> text, finish_reason |-> finish_reason]>> :
            text \in {"", "hi"},
            finish_reason \in { Some("stop"), Some("length"), Some("tool_calls"),
                                Some(""), Some("foo") } },
      usage \in {Null, RawUsage(Some(3), Some(2))} }

\* What the POST comes back with: a failed response (failedResponseHandler
\* throws), a body that fails the response schema, a body that passes it,
\* or, for a streaming request, the event stream.
Responses(facade, stream) ==
  {[kind |-> "failed"]} \cup
  (IF stream THEN {[kind |-> "events"]}
   ELSE {[kind |-> "invalid"]} \cup
        { [kind |-> "body", body |-> body] :
            body \in IF facade = "chat" THEN ChatResponseBodies
                     ELSE CompletionResponseBodies })

(***************************************************************************)
(* State of one doStream call                                              *)
(***************************************************************************)

VARIABLES
  facade,          \* "chat" or "completion": the model doStream was called on
  errorStructure,  \* the error structure of the model's config
  status,          \* "open", "flushed", "errored" (a transform step threw) or "aborted"
  received,        \* history: the chunks handed to transform, [raw, chunk]
  dropped,         \* history: the chunks that arrived after the stream errored
  events,          \* the stream parts enqueued on the controller, in order
  toolCalls,       \* the tool-call table (chat), a sequence: slot 0 is toolCalls[1]
  finishReason,
  usage,
  isFirstChunk,
  idCounter        \* the number of generateId() calls so far

\* The state of the conversion specification: a prompt and what each of the
\* two mappers made of it.
VARIABLES
  prompt,            \* the LanguageModelV1Prompt
  chatMessages,      \* Null, or Some(outcome of convertToSparkChatMessages)
  completionPrompt   \* Null, or Some([inputFormat, outcome of
                     \* convertToSparkCompletionPrompt])

\* The state of the call specification: one doGenerate or doStream call.
VARIABLES
  call,             \* the model instance, the method and its options
  pc,               \* the index in Steps(...) of the step to take next
  args,             \* Null, or Some(what getArgs returned)
  posts,            \* the HTTP POSTs issued so far
  response,         \* Null, or Some(what the POST came back with)
  result,           \* Null, or Some(what doGenerate returned)
  simulatedStream,  \* Null, or Some([events, closed]) of the simulated stream
  rejection         \* Null, or Some([step, error]): the call has thrown

\* The state of the concurrent specification: two doStream calls on the one
\* model instance (facade, errorStructure).
VARIABLES
  streams,    \* for each call, the state its doStream allocated and its stream
  schedule    \* history: the call whose chunk was processed, in order

\* The state of the provider specification: the providers createSparkProvider
\* returned, the models their factories built and the environment.
VARIABLES
  environment,  \* process.env.SPARK_API_KEY: Null or Some(key)
  providers,    \* the options of the providers created so far
  models,       \* the models built so far: [provider, factory, modelType]
  loads,        \* history: the loadApiKey calls, [during, apiKey, ...]
  built         \* history: the headers() calls, [model, outcome]

streamVars == << facade, errorStructure, status, received, dropped, events,
                 toolCalls, finishReason, usage, isFirstChunk, idCounter >>

convertVars == << prompt, chatMessages, completionPrompt >>

\* The variables a stream leaves alone.
callVars == << call, pc, args, posts, response, result, simulatedStream,
              rejection >>

concurrentVars == << streams, schedule >>

providerVars == << environment, providers, models, loads, built >>

otherVars == << convertVars, callVars, concurrentVars, providerVars >>

vars == << streamVars, otherVars >>

\* No conversion is under way.
ConvertIdle == prompt = <<>> /\ chatMessages = Null /\ completionPrompt = Null

\* No call is under way.
CallIdle ==
  /\ call = Null
  /\ pc = 0
  /\ args = Null
  /\ posts = <<>>
  /\ response = Null
  /\ result = Null
  /\ simulatedStream = Null
  /\ rejection = Null

\* Nothing but a stream is under way.
\* No pair of calls is under way.
ConcurrentIdle == streams = <<>> /\ schedule = <<>>

\* No provider is under observation.
ProviderIdle ==
  /\ environment = Null
  /\ providers = <<>>
  /\ models = <<>>
  /\ loads = <<>>
  /\ built = <<>>

OthersIdle == ConvertIdle /\ CallIdle /\ ConcurrentIdle /\ ProviderIdle

\* No stream is open.
StreamIdle ==
  /\ facade = "chat"
  /\ errorStructure = "default"
  /\ status = "idle"
  /\ received = <<>>
  /\ dropped = <<>>
  /\ events = <<>>
  /\ toolCalls = <<>>
  /\ finishReason = "unknown"
  /\ usage = [promptTokens |-> Null, completionTokens |-> Null]
  /\ isFirstChunk = TRUE
  /\ idCounter = 0

StreamState ==
  [ toolCalls |-> toolCalls, finishReason |-> finishReason, usage |-> usage,
    isFirstChunk |-> isFirstChunk, idCounter |-> idCounter ]

\* The outcome of one transform step: the state it leaves, the events it
\* enqueued, and whether it threw.
Outcome(st, out, thrown) == [st |-> st, out |-> out, thrown |-> thrown]

(***************************************************************************)
(* SparkChatLanguageModel.doStream: transform                              *)
(***************************************************************************)

ErrorEvent(k, error) == [type |-> "error", chunk |-> k, error |-> error]

MetadataEvent(k, value) ==
  [type |-> "response-metadata", chunk |-> k] @@ getResponseMetadata(value)

TextDeltaEvent(k, text) == [type |-> "text-delta", chunk |-> k, textDelta |-> text]

ToolCallDeltaEvent(k, toolCall, argsTextDelta) ==
  [ type |-> "tool-call-delta", chunk |-> k, toolCallType |-> "function",
    toolCallId |-> toolCall.id, toolName |-> toolCall.name,
    argsTextDelta |-> argsTextDelta ]

ToolCallEvent(k, toolCall) ==
  [ type |-> "tool-call", chunk |-> k, toolCallType |-> "function",
    toolCallId |-> toolCall.id, toolName |-> toolCall.name,
    args |-> toolCall.arguments ]

\* if (!chunk.success) { finishReason = "error"; enqueue error; return }
\* and the same for a value with an `error` key.
ChatErrorStep(st, k, error) ==
  Outcome([st EXCEPT !.finishReason = "error"], <<ErrorEvent(k, error)>>, FALSE)

\* Mutant: isFirstChunk is never cleared.
FirstChunkStepKeepsFlag(st, k, value) ==
  IF st.isFirstChunk
  THEN Outcome(st, <<MetadataEvent(k, value)>>, FALSE)
  ELSE Outcome(st, <<>>, FALSE)

\* if (isFirstChunk) { isFirstChunk = false; enqueue response-metadata }
FirstChunkStep(st, k, value) ==
  IF st.isFirstChunk
  THEN Outcome([st EXCEPT !.isFirstChunk = FALSE], <<MetadataEvent(k, value)>>, FALSE)
  ELSE Outcome(st, <<>>, FALSE)

\* Mutant: a counter missing from the usage object keeps its earlier value.
ChatUsageStepMerges(st, value) ==
  IF value.usage # Null
  THEN [st EXCEPT !.usage =
          [ promptTokens |-> IF Get(value.usage).prompt_tokens # Null
                             THEN Get(value.usage).prompt_tokens
                             ELSE st.usage.promptTokens,
            completionTokens |-> IF Get(value.usage).completion_tokens # Null
                                 THEN Get(value.usage).completion_tokens
                                 ELSE st.usage.completionTokens ]]
  ELSE st

\* if (value.usage != null) usage = {promptTokens: ... ?? undefined, ...}
ChatUsageStep(st, value) ==
  IF value.usage # Null
  THEN [st EXCEPT !.usage = [ promptTokens |-> Get(value.usage).prompt_tokens,
                              completionTokens |-> Get(value.usage).completion_tokens ]]
  ELSE st

\* toolCalls[0] = {id: delta.tool_calls.id ?? generateId(), ..., hasFinished: false}
NewToolCall(st, tc) ==
  [ id |-> OrElse(tc.id, generateId(st.idCounter)),
    name |-> Get(Get(tc.function).name),
    arguments |-> OrElse(Get(tc.function).arguments, <<>>),
    hasFinished |-> FALSE ]

\* The first completion check, on the entry as just stored: a
\* tool-call-delta when the arguments are not empty, and a tool-call (and
\* hasFinished) when they parse.
ToolCallFirstCheck(k, toolCall) ==
  LET delta == IF Len(toolCall.arguments) > 0
               THEN <<ToolCallDeltaEvent(k, toolCall, toolCall.arguments)>>
               ELSE <<>>
      done == isParsableJson(toolCall.arguments)
  IN [ toolCall |-> [toolCall EXCEPT !.hasFinished = done],
       out |-> delta \o (IF done THEN <<ToolCallEvent(k, toolCall)>> ELSE <<>>) ]

\* if (delta.tool_calls.function?.arguments != null)
\*   toolCall.function.arguments += delta.tool_calls.function?.arguments ?? ""
ToolCallAppend(toolCall, tc) ==
  IF Get(tc.function).arguments # Null
  THEN [toolCall EXCEPT !.arguments = @ \o Get(Get(tc.function).arguments)]
  ELSE toolCall

\* The tool-call-delta of the fragment and the second completion check.
ToolCallSecondCheck(k, toolCall, tc) ==
  LET done == isParsableJson(toolCall.arguments)
  IN [ toolCall |-> IF done THEN [toolCall EXCEPT !.hasFinished = TRUE] ELSE toolCall,
       out |-> <<ToolCallDeltaEvent(k, toolCall,
                                    OrElse(Get(tc.function).arguments, <<>>))>>
               \o (IF done THEN <<ToolCallEvent(k, toolCall)>> ELSE <<>>) ]

\* The guards that throw InvalidResponseDataError.
ToolCallDeltaThrows(tc) ==
  \/ tc.type # Some("function")
  \/ tc.function = Null
  \/ Get(tc.function).name = Null

\* if (delta.tool_calls != null) { ... }
ChatToolCallsStep(st, k, tc) ==
  IF ToolCallDeltaThrows(tc) THEN Outcome(st, <<>>, TRUE)
  ELSE
    LET first == ToolCallFirstCheck(k, NewToolCall(st, tc))
        second == ToolCallSecondCheck(k, ToolCallAppend(first.toolCall, tc), tc)
    IN Outcome([st EXCEPT !.toolCalls = <<second.toolCall>>,
                          !.idCounter = IF tc.id = Null THEN @ + 1 ELSE @],
               first.out \o second.out, FALSE)

\* From `const choice = value.choices[0]` on.  value.choices is undefined
\* for a value parsed by the error schema: reading [0] of it throws.
ChatChoiceStep(st, k, value) ==
  IF value.choices = Null THEN Outcome(st, <<>>, TRUE)
  ELSE IF Len(Get(value.choices)) = 0 THEN Outcome(st, <<>>, FALSE)
  ELSE IF Get(value.choices)[1].delta = Null THEN Outcome(st, <<>>, FALSE)
  ELSE
    LET delta == Get(Get(value.choices)[1].delta)
        text == IF delta.content # Null
                THEN <<TextDeltaEvent(k, Get(delta.content))>> ELSE <<>>
    IN IF delta.tool_calls # Null
       THEN LET r == ChatToolCallsStep(st, k, Get(delta.tool_calls))
            IN Outcome(r.st, text \o r.out, r.thrown)
       ELSE Outcome(st, text, FALSE)

\* transform(chunk, controller) of the chat stream, for the k-th chunk.
ChatTransformStep(st, k, chunk) ==
  IF ~chunk.success THEN ChatErrorStep(st, k, chunk.error)
  ELSE IF chunk.value.error # Null
  THEN ChatErrorStep(st, k, Get(chunk.value.error).message)
  ELSE
    LET first == FirstChunkStep(st, k, chunk.value)
        rest == ChatChoiceStep(ChatUsageStep(first.st, chunk.value), k, chunk.value)
    IN Outcome(rest.st, first.out \o rest.out, rest.thrown)

\* flush(controller) of the chat stream.
ChatFlushEvents(st) ==
  << [ type |-> "finish", chunk |-> 0, finishReason |-> st.finishReason,
       usage |-> [ promptTokens |-> OrElse(st.usage.promptTokens, NaN),
                   completionTokens |-> OrElse(st.usage.completionTokens, NaN) ] ] >>

(***************************************************************************)
(* SparkCompletionLanguageModel.doStream: transform and flush              *)
(***************************************************************************)

\* Mutant: the error is reported but the finish reason is left as it was.
CompletionErrorStepKeepsReason(st, k, error) ==
  Outcome(st, <<ErrorEvent(k, error)>>, FALSE)

CompletionErrorStep(st, k, error) ==
  Outcome([st EXCEPT !.finishReason = "error"], <<ErrorEvent(k, error)>>, FALSE)

\* if (value.usage != null) usage = {promptTokens: value.usage.prompt_tokens, ...}
CompletionUsageStep(st, value) ==
  IF value.usage # Null
  THEN [st EXCEPT !.usage = [ promptTokens |-> Get(value.usage).prompt_tokens,
                              completionTokens |-> Get(value.usage).completion_tokens ]]
  ELSE st

\* Mutant: a chunk without a finish_reason resets the finish reason.
CompletionFinishReasonStepResets(st, choice) ==
  [st EXCEPT !.finishReason = mapSparkFinishReason(choice.finish_reason)]

\* if (choice?.finish_reason != null) finishReason = mapSparkFinishReason(...)
CompletionFinishReasonStep(st, choice) ==
  IF choice.finish_reason # Null
  THEN [st EXCEPT !.finishReason = mapSparkFinishReason(choice.finish_reason)]
  ELSE st

\* From `const choice = value.choices[0]` on.
CompletionChoiceStep(st, k, value) ==
  IF value.choices = Null THEN Outcome(st, <<>>, TRUE)
  ELSE IF Len(Get(value.choices)) = 0 THEN Outcome(st, <<>>, FALSE)
  ELSE
    LET choice == Get(value.choices)[1]
    IN Outcome(CompletionFinishReasonStep(st, choice),
               IF choice.text # Null
               THEN <<TextDeltaEvent(k, Get(choice.text))>> ELSE <<>>,
               FALSE)

\* transform(chunk, controller) of the completion stream, for the k-th chunk.
CompletionTransformStep(st, k, chunk) ==
  IF ~chunk.success THEN CompletionErrorStep(st, k, chunk.error)
  ELSE IF chunk.value.error # Null
  THEN CompletionErrorStep(st, k, Get(chunk.value.error))
  ELSE
    LET first == FirstChunkStep(st, k, chunk.value)
        rest == CompletionChoiceStep(CompletionUsageStep(first.st, chunk.value),
                                     k, chunk.value)
    IN Outcome(rest.st, first.out \o rest.out, rest.thrown)

\* flush(controller) of the completion stream.
CompletionFlushEvents(st) ==
  << [ type |-> "finish", chunk |-> 0, finishReason |-> st.finishReason,
       usage |-> [ promptTokens |-> Get(st.usage.promptTokens),
                   completionTokens |-> Get(st.usage.completionTokens) ] ] >>

(***************************************************************************)
(* The stream                                                              *)
(***************************************************************************)

\* The state doStream allocates before it returns the stream.
Init ==
  /\ facade \in {"chat", "completion"}
  /\ errorStructure \in ErrorStructures
  /\ status = "open"
  /\ received = <<>>
  /\ dropped = <<>>
  /\ events = <<>>
  /\ toolCalls = <<>>
  /\ finishReason = "unknown"
  /\ usage = IF facade = "chat"
             THEN [promptTokens |-> Null, completionTokens |-> Null]
             ELSE [promptTokens |-> Some(NaN), completionTokens |-> Some(NaN)]
  /\ isFirstChunk = TRUE
  /\ idCounter = 0
  /\ OthersIdle

Arrived == Len(received) + Len(dropped)

\* One transform step took place with outcome r on the parsed chunk.
Apply(raw, chunk, r) ==
  /\ received' = Append(received, [raw |-> raw, chunk |-> chunk])
  /\ events' = events \o r.out
  /\ toolCalls' = r.st.toolCalls
  /\ finishReason' = r.st.finishReason
  /\ usage' = r.st.usage
  /\ isFirstChunk' = r.st.isFirstChunk
  /\ idCounter' = r.st.idCounter
  /\ status' = IF r.thrown THEN "errored" ELSE "open"
  /\ UNCHANGED << facade, errorStructure, dropped, otherVars >>

\* The transport delivers a payload; the event-source handler parses it and
\* the transform step runs to its end, or throws and errors the stream.
ChatTransform ==
  /\ facade = "chat"
  /\ status = "open"
  /\ Arrived < MaxChunks
  /\ \E raw \in ChatRawChunks :
       LET chunk == ParseChatChunk(errorStructure, raw)
       IN Apply(raw, chunk, ChatTransformStep(StreamState, Len(received) + 1, chunk))

CompletionTransform ==
  /\ facade = "completion"
  /\ status = "open"
  /\ Arrived < MaxChunks
  /\ \E raw \in CompletionRawChunks :
       LET chunk == ParseCompletionChunk(errorStructure, raw)
       IN Apply(raw, chunk,
                CompletionTransformStep(StreamState, Len(received) + 1, chunk))

\* The transport closes the stream: flush runs.
ChatFlush ==
  /\ facade = "chat"
  /\ status = "open"
  /\ events' = events \o ChatFlushEvents(StreamState)
  /\ status' = "flushed"
  /\ UNCHANGED << facade, errorStructure, received, dropped, toolCalls,
                  finishReason, usage, isFirstChunk, idCounter, otherVars >>

CompletionFlush ==
  /\ facade = "completion"
  /\ status = "open"
  /\ events' = events \o CompletionFlushEvents(StreamState)
  /\ status' = "flushed"
  /\ UNCHANGED << facade, errorStructure, received, dropped, toolCalls,
                  finishReason, usage, isFirstChunk, idCounter, otherVars >>

\* A payload of the response that follows a throwing transform step: the
\* pipe is broken, neither transform nor flush sees it.
Discard ==
  /\ status = "errored"
  /\ Arrived < MaxChunks
  /\ \E raw \in (IF facade = "chat" THEN ChatRawChunks ELSE CompletionRawChunks) :
       dropped' = Append(dropped,
         [ raw |-> raw,
           chunk |-> IF facade = "chat" THEN ParseChatChunk(errorStructure, raw)
                     ELSE ParseCompletionChunk(errorStructure, raw) ])
  /\ UNCHANGED << facade, errorStructure, status, received, events, toolCalls,
                  finishReason, usage, isFirstChunk, idCounter, otherVars >>

\* options.abortSignal fires: the transport aborts, no flush runs.
Abort ==
  /\ status = "open"
  /\ status' = "aborted"
  /\ UNCHANGED << facade, errorStructure, received, dropped, events, toolCalls,
                  finishReason, usage, isFirstChunk, idCounter, otherVars >>

Next ==
  \/ ChatTransform
  \/ ChatFlush
  \/ CompletionTransform
  \/ CompletionFlush
  \/ Discard
  \/ Abort

Spec == Init /\ [][Next]_vars

(***************************************************************************)
(* The conversion specification: a prompt is handed to each mapper         *)
(***************************************************************************)

ConvertInit ==
  /\ IsPrompt(prompt)
  /\ chatMessages = Null
  /\ completionPrompt = Null
  /\ StreamIdle
  /\ CallIdle
  /\ ConcurrentIdle
  /\ ProviderIdle

\* getArgs of the chat model: messages: convertToSparkChatMessages(prompt)
ConvertToSparkChatMessages ==
  /\ chatMessages = Null
  /\ chatMessages' = Some(convertToSparkChatMessages(prompt))
  /\ UNCHANGED << prompt, completionPrompt, streamVars, callVars,
                  concurrentVars, providerVars >>

\* getArgs of the completion model:
\* convertToSparkCompletionPrompt({prompt, inputFormat})
ConvertToSparkCompletionPrompt ==
  /\ completionPrompt = Null
  /\ \E inputFormat \in InputFormats :
       completionPrompt' =
         Some([ inputFormat |-> inputFormat,
                outcome |-> convertToSparkCompletionPrompt(prompt, inputFormat) ])
  /\ UNCHANGED << prompt, chatMessages, streamVars, callVars,
                  concurrentVars, providerVars >>

ConvertNext ==
  \/ ConvertToSparkChatMessages
  \/ ConvertToSparkCompletionPrompt

ConvertSpec == ConvertInit /\ [][ConvertNext]_vars

(***************************************************************************)
(* The merge specification: the conversions of prompts whose spark         *)
(* metadata has keys the mappers build                                     *)
(***************************************************************************)

\* The number of parts of the message under conversion.
MaxMergedParts == 2

\* Spark bags whose keys collide with the fields of the emitted objects.
MetadataOfIdentity ==
  Some([spark |-> Some([ role |-> "m-role", type |-> "m-type", text |-> "m-text",
                         tool_call_id |-> "m-id" ])])

MetadataOfContent ==
  Some([spark |-> Some([ content |-> "m-content", tool_calls |-> "m-calls",
                         cache |-> TRUE ])])

MergedMetadata == {NoMetadata, MetadataOfIdentity, MetadataOfContent}

MergedUserParts ==
  { TextPart("u", providerMetadata) : providerMetadata \in MergedMetadata }
  \cup { [ ImagePart([isURL |-> TRUE, href |-> "http://x/i.png"], Null)
             EXCEPT !.providerMetadata = MetadataOfIdentity ] }

MergedAssistantParts ==
  { TextPart("a", MetadataOfIdentity) }
  \cup { ToolCallPart("c1", "f", JObject(<<>>), providerMetadata) :
           providerMetadata \in MergedMetadata }

MergedToolResults ==
  { ToolResultPart("c1", "f", JNumber(7), providerMetadata) :
      providerMetadata \in MergedMetadata }

MergedSystemMessages ==
  { Message("system", "S", providerMetadata) : providerMetadata \in MergedMetadata }

MergedListMessages ==
  { Message("user", content, providerMetadata) :
      content \in SeqsUpTo(MergedUserParts, MaxMergedParts),
      providerMetadata \in MergedMetadata }
  \cup { Message("assistant", content, providerMetadata) :
           content \in SeqsUpTo(MergedAssistantParts, MaxMergedParts),
           providerMetadata \in MergedMetadata }
  \cup { Message("tool", content, providerMetadata) :
           content \in SeqsUpTo(MergedToolResults, MaxMergedParts),
           providerMetadata \in MergedMetadata }

\* A prompt of one message, alone or after a user message.
MergeInit ==
  /\ \E before \in {0, 2} :
       \/ \E message \in MergedSystemMessages :
            prompt = MessagesBefore(before) \o <<message>>
       \/ \E message \in MergedListMessages :
            prompt = MessagesBefore(before) \o <<message>>
  /\ chatMessages = Null
  /\ completionPrompt = Null
  /\ StreamIdle
  /\ CallIdle
  /\ ConcurrentIdle
  /\ ProviderIdle

MergeSpec == MergeInit /\ [][ConvertNext]_vars

(***************************************************************************)
(* The call specification: one doGenerate or doStream call on a model      *)
(***************************************************************************)

CallInit ==
  /\ \E model \in {"chat", "completion"}, method \in {"doGenerate", "doStream"},
        simulateStreaming \in BOOLEAN, supportsStructuredOutputs \in BOOLEAN,
        n \in 1..CallPromptCount, mode \in Modes, topK \in {Null, Some(5)},
        responseFormat \in ResponseFormats, inputFormat \in InputFormats :
       /\ model = "completion" => ~simulateStreaming /\ ~supportsStructuredOutputs
       /\ model = "chat" => inputFormat = "messages"
       /\ call = [ facade |-> model, method |-> method,
                   simulateStreaming |-> simulateStreaming,
                   supportsStructuredOutputs |-> supportsStructuredOutputs,
                   options |-> [ mode |-> mode, prompt |-> CallPrompt(n),
                                 topK |-> topK, responseFormat |-> responseFormat,
                                 stopSequences |-> Null,
                                 inputFormat |-> inputFormat ] ]
  /\ pc = 1
  /\ args = Null
  /\ posts = <<>>
  /\ response = Null
  /\ result = Null
  /\ simulatedStream = Null
  /\ rejection = Null
  /\ StreamIdle
  /\ ConvertIdle
  /\ ConcurrentIdle
  /\ ProviderIdle

CallSteps == Steps(call.facade, call.method, call.simulateStreaming)

\* The call is at the given step and has not thrown.
AtStep(step) == rejection = Null /\ pc <= Len(CallSteps) /\ CallSteps[pc] = step

\* The request has stream: true.
Streaming == call.method = "doStream" /\ ~(call.facade = "chat" /\ call.simulateStreaming)

\* What getArgs makes of the options of the call.
GetArgsOutcome ==
  IF call.facade = "chat"
  THEN ChatGetArgs(call.options, call.supportsStructuredOutputs)
  ELSE CompletionGetArgs(call.options)

Throw(step, error) == rejection' = Some([step |-> step, error |-> error])

\* const { args, warnings } = this.getArgs(options)
GetArgs ==
  /\ AtStep("getArgs")
  /\ IF GetArgsOutcome.ok
     THEN /\ args' = Some(GetArgsOutcome.value)
          /\ pc' = pc + 1
          /\ UNCHANGED rejection
     ELSE /\ Throw("getArgs", GetArgsOutcome.error)
          /\ UNCHANGED << args, pc >>
  /\ UNCHANGED << call, posts, response, result, simulatedStream, streamVars,
                  convertVars, concurrentVars,
                  providerVars >>

\* await postJsonToApi({ url, headers, body, ... })
PostJsonToApi ==
  /\ AtStep("postJsonToApi")
  /\ posts' = Append(posts, [ stream |-> Streaming,
                              body |-> IF args # Null THEN Some(Get(args).args)
                                       ELSE Null ])
  /\ \E r \in Responses(call.facade, Streaming) :
       /\ response' = Some(r)
       /\ IF r.kind \in {"failed", "invalid"}
          THEN Throw("postJsonToApi", "APICallError") /\ UNCHANGED pc
          ELSE pc' = pc + 1 /\ UNCHANGED rejection
  /\ UNCHANGED << call, args, result, simulatedStream, streamVars, convertVars,
                  concurrentVars, providerVars >>

\* The rest of doGenerate: the result built from the response body.
GenerateResult ==
  /\ AtStep("result")
  /\ LET generated ==
           IF call.facade = "chat"
           THEN ChatGenerateResult(Get(response).body, Get(args).warnings)
           ELSE CompletionGenerateResult(Get(response).body, Get(args).warnings)
     IN IF generated.ok
        THEN /\ result' = Some(generated.value)
             /\ pc' = pc + 1
             /\ UNCHANGED rejection
        ELSE /\ Throw("result", generated.error)
             /\ UNCHANGED << result, pc >>
  /\ UNCHANGED << call, args, posts, response, simulatedStream, streamVars,
                  convertVars, concurrentVars,
                  providerVars >>

\* new ReadableStream({ start(controller) { ...; controller.close() } })
SimulateStream ==
  /\ AtStep("simulatedStream")
  /\ simulatedStream' = Some([events |-> SimulatedEvents(Get(result)), closed |-> TRUE])
  /\ pc' = pc + 1
  /\ UNCHANGED << call, args, posts, response, result, rejection, streamVars,
                  convertVars, concurrentVars,
                  providerVars >>

\* return { stream: response.pipeThrough(new TransformStream(...)), ... }
PipeThrough ==
  /\ AtStep("pipeThrough")
  /\ pc' = pc + 1
  /\ UNCHANGED << call, args, posts, response, result, simulatedStream, rejection,
                  streamVars, convertVars, concurrentVars,
                  providerVars >>

CallNext ==
  \/ GetArgs
  \/ PostJsonToApi
  \/ GenerateResult
  \/ SimulateStream
  \/ PipeThrough

CallSpec == CallInit /\ [][CallNext]_vars

\* The call has returned.
HasReturned == rejection = Null /\ pc = Len(CallSteps) + 1

(***************************************************************************)
(* The concurrent specification: two doStream calls on one model instance, *)
(* their chunks processed in any interleaving                              *)
(***************************************************************************)

\* The number of chunks the two responses deliver between them.
MaxInterleaved == 3

Calls == {1, 2}

\* The payloads of the two responses: usage, finish reasons, text, the
\* deltas of two tool calls, and a vendor error.
InterleavedRawChunks(f) ==
  IF f = "chat"
  THEN { [shape |-> "flatError", message |-> "boom"],
         RawChunk(Meta1, <<>>, RawUsage(Some(3), Some(2))),
         RawChunk(Meta2, <<[delta |-> Null, finish_reason |-> Some("stop")]>>, Null),
         RawChunk(Meta1, <<RawChatChoice(Some("a"),
             RawToolCall(Some(VendorId(1)), Fn, Some("f"), Some(<<"[">>)), Null)>>, Null),
         RawChunk(Meta2, <<RawChatChoice(Null,
             RawToolCall(Some(VendorId(1)), Fn, Some("f"), Some(<<"]">>)),
             Some("length"))>>, RawUsage(Null, Some(5))),
         RawChunk(NoMeta, <<RawChatChoice(Some("b"),
             RawToolCall(Some(VendorId(2)), Fn, Some("g"), Some(<<"1">>)),
             Some("tool_calls"))>>, Null) }
  ELSE { [shape |-> "flatError", message |-> "boom"],
         RawChunk(Meta1, <<>>, RawUsage(Some(3), Some(2))),
         RawChunk(Meta2, <<RawCompletionChoice(Some("a"), Null)>>, Null),
         RawChunk(NoMeta, <<RawCompletionChoice(Some("b"), Some("stop"))>>, Null),
         RawChunk(NoMeta, <<RawCompletionChoice(Some(""), Some("length"))>>,
             RawUsage(Some(1), Some(1))) }

ParseChunk(f, es, raw) ==
  IF f = "chat" THEN ParseChatChunk(es, raw) ELSE ParseCompletionChunk(es, raw)

TransformStep(f, st, k, chunk) ==
  IF f = "chat" THEN ChatTransformStep(st, k, chunk)
  ELSE CompletionTransformStep(st, k, chunk)

FlushEvents(f, st) ==
  IF f = "chat" THEN ChatFlushEvents(st) ELSE CompletionFlushEvents(st)

\* const toolCalls = []; let finishReason = "unknown"; let usage = ...;
\* let isFirstChunk = true: the locals of one doStream call. idCounter counts
\* the generateId() calls of the stream: an id is named by its position.
AllocatedState(f) ==
  [ toolCalls |-> <<>>,
    finishReason |-> "unknown",
    usage |-> IF f = "chat"
              THEN [promptTokens |-> Null, completionTokens |-> Null]
              ELSE [promptTokens |-> Some(NaN), completionTokens |-> Some(NaN)],
    isFirstChunk |-> TRUE,
    idCounter |-> 0 ]

\* Mutant: the state is held by the model instance, every call writes it.
ClosureOfInstance(c) == Calls

\* The calls whose state the transform of call c closes over: the locals are
\* declared inside doStream, so each call has its own.
Closure(c) == {c}

\* Both calls have returned their streams.
ConcurrentInit ==
  /\ facade \in {"chat", "completion"}
  /\ errorStructure \in ErrorStructures
  /\ status = "idle"
  /\ received = <<>>
  /\ dropped = <<>>
  /\ events = <<>>
  /\ toolCalls = <<>>
  /\ finishReason = "unknown"
  /\ usage = [promptTokens |-> Null, completionTokens |-> Null]
  /\ isFirstChunk = TRUE
  /\ idCounter = 0
  /\ streams = [ c \in Calls |->
                 [ status |-> "open", received |-> <<>>, events |-> <<>>,
                   state |-> AllocatedState(facade) ] ]
  /\ schedule = <<>>
  /\ ConvertIdle
  /\ CallIdle
  /\ ProviderIdle

\* A chunk of the response of call c reaches the transform of call c.
ConcurrentTransform ==
  /\ Len(schedule) < MaxInterleaved
  /\ \E c \in Calls :
       /\ streams[c].status = "open"
       /\ schedule' = Append(schedule, c)
       /\ \E raw \in InterleavedRawChunks(facade) :
            LET chunk == ParseChunk(facade, errorStructure, raw)
                r == TransformStep(facade, streams[c].state,
                                   Len(streams[c].received) + 1, chunk)
            IN streams' = [ d \in Calls |->
                 IF d = c
                 THEN [ status |-> IF r.thrown THEN "errored" ELSE "open",
                        received |-> Append(streams[c].received,
                                            [raw |-> raw, chunk |-> chunk]),
                        events |-> streams[c].events \o r.out,
                        state |-> r.st ]
                 ELSE IF d \in Closure(c) THEN [streams[d] EXCEPT !.state = r.st]
                 ELSE streams[d] ]
  /\ UNCHANGED << streamVars, convertVars, callVars, providerVars >>

\* The response of call c ends: the flush of call c runs.
ConcurrentFlush ==
  /\ \E c \in Calls :
       /\ streams[c].status = "open"
       /\ streams' = [ streams EXCEPT
            ![c].status = "flushed",
            ![c].events = streams[c].events \o FlushEvents(facade, streams[c].state) ]
  /\ UNCHANGED << schedule, streamVars, convertVars, callVars, providerVars >>

ConcurrentNext ==
  \/ ConcurrentTransform
  \/ ConcurrentFlush

ConcurrentSpec == ConcurrentInit /\ [][ConcurrentNext]_vars

(***************************************************************************)
(* The provider specification: createSparkProvider, the model factories    *)
(* and the headers() of the model configs (spark-provider.ts)              *)
(***************************************************************************)

MaxProviders == 2
MaxModels == 2
MaxHeaderCalls == 3

\* options.apiKey and the values of the environment variable.
ApiKeys == {Null, Some("custom-key")}
EnvironmentValues == {Null, Some("env-key-1"), Some("env-key-2")}

\* options.headers
CustomHeaders == {Null, Some("Custom-Header" :> "value")}

\* loadApiKey of @ai-sdk/provider-utils: the apiKey option when it is a
\* string, the environment variable otherwise, LoadAPIKeyError without both.
loadApiKey(apiKey, environmentVariableName, env) ==
  IF apiKey # Null THEN Returned(Get(apiKey))
  ELSE IF environmentVariableName = "SPARK_API_KEY" /\ env # Null
  THEN Returned(Get(env))
  ELSE Thrown("LoadAPIKeyError")

\* const getHeaders = () => ({Authorization: `Bearer ${loadApiKey(...)}`,
\*                            ...options.headers})
getHeaders(options, env) ==
  LET key == loadApiKey(options.apiKey, "SPARK_API_KEY", env)
  IN IF key.ok
     THEN Returned(OrElse(options.headers, EmptyObject)
                   @@ [Authorization |-> "Bearer " \o key.value])
     ELSE key

\* Mutant: the key is loaded once, when the provider is created.
LoadsDuringCreation(operation, options, env) ==
  IF operation = "createSparkProvider"
  THEN << [ during |-> operation, apiKey |-> options.apiKey,
            environmentVariableName |-> "SPARK_API_KEY", environment |-> env ] >>
  ELSE <<>>

\* The loadApiKey calls an operation makes: createSparkProvider and the
\* factories only define and pass on getHeaders, headers() runs it.
LoadsDuring(operation, options, env) ==
  IF operation = "headers"
  THEN << [ during |-> operation, apiKey |-> options.apiKey,
            environmentVariableName |-> "SPARK_API_KEY", environment |-> env ] >>
  ELSE <<>>

\* The module is loaded: export const spark = createSparkProvider()
ProviderInit ==
  /\ environment \in EnvironmentValues
  /\ providers = << [apiKey |-> Null, headers |-> Null] >>
  /\ models = <<>>
  /\ loads = LoadsDuring("createSparkProvider", [apiKey |-> Null, headers |-> Null],
                         environment)
  /\ built = <<>>
  /\ StreamIdle
  /\ ConvertIdle
  /\ CallIdle
  /\ ConcurrentIdle

\* createSparkProvider(options)
CreateSparkProvider ==
  /\ Len(providers) < MaxProviders
  /\ \E apiKey \in ApiKeys, headers \in CustomHeaders :
       LET options == [apiKey |-> apiKey, headers |-> headers]
       IN /\ providers' = Append(providers, options)
          /\ loads' = loads \o LoadsDuring("createSparkProvider", options, environment)
  /\ UNCHANGED << environment, models, built, streamVars, convertVars, callVars,
                  concurrentVars >>

\* provider(modelId), provider.chatModel(modelId) and
\* provider.completionModel(modelId)
CreateModel ==
  /\ Len(models) < MaxModels
  /\ \E p \in 1..Len(providers),
        factory \in {"provider", "chatModel", "completionModel"} :
       /\ models' = Append(models,
            [ provider |-> p, factory |-> factory,
              modelType |-> IF factory = "completionModel" THEN "completion"
                            ELSE "chat" ])
       /\ loads' = loads \o LoadsDuring(factory, providers[p], environment)
  /\ UNCHANGED << environment, providers, built, streamVars, convertVars, callVars,
                  concurrentVars >>

\* config.headers() of a model, as doGenerate and doStream call it
Headers ==
  /\ Len(built) < MaxHeaderCalls
  /\ \E m \in 1..Len(models) :
       LET options == providers[models[m].provider]
       IN /\ loads' = loads \o LoadsDuring("headers", options, environment)
          /\ built' = Append(built, [ model |-> m,
                                      outcome |-> getHeaders(options, environment) ])
  /\ UNCHANGED << environment, providers, models, streamVars, convertVars, callVars,
                  concurrentVars >>

\* The environment variable is set, changed or unset.
SetEnvironment ==
  /\ environment' \in EnvironmentValues \ {environment}
  /\ UNCHANGED << providers, models, loads, built, streamVars, convertVars,
                  callVars, concurrentVars >>

ProviderNext ==
  \/ CreateSparkProvider
  \/ CreateModel
  \/ Headers
  \/ SetEnvironment

ProviderSpec == ProviderInit /\ [][ProviderNext]_vars

(***************************************************************************)
(* Reading the histories                                                   *)
(***************************************************************************)

\* The chunk is reported as an error: it failed to parse, or its value has
\* an `error` key.
IsErrorChunk(c) == ~c.success \/ c.value.error # Null

\* A valid non-error chunk: the rest of the transform step runs on it.
IsValidChunk(c) == c.success /\ c.value.error = Null

\* value.choices[0] exists.
HasChoice(c) ==
  IsValidChunk(c) /\ c.value.choices # Null /\ Len(Get(c.value.choices)) > 0

ChoiceOf(c) == Get(c.value.choices)[1]

\* The finish_reason on the chunk's first choice, if any.
ObservedFinishReason(c) == IF HasChoice(c) THEN ChoiceOf(c).finish_reason ELSE Null

\* The chat chunk's delta, and the tool-call delta in it, if any.
DeltaOf(c) == IF HasChoice(c) THEN ChoiceOf(c).delta ELSE Null
ToolDeltaOf(c) == IF DeltaOf(c) # Null THEN Get(DeltaOf(c)).tool_calls ELSE Null

\* The text fragment the chunk carries on its first choice, as a sequence
\* of zero or one strings.
CarriedText(f, c) ==
  IF f = "chat"
  THEN (IF DeltaOf(c) # Null THEN Get(DeltaOf(c)).content ELSE Null)
  ELSE (IF HasChoice(c) THEN ChoiceOf(c).text ELSE Null)

\* The chat tool-call delta names a function and has the type "function".
WellFormedToolDelta(c) ==
  /\ ToolDeltaOf(c) # Null
  /\ Get(ToolDeltaOf(c)).type = Some("function")
  /\ Get(ToolDeltaOf(c)).function # Null
  /\ Get(Get(ToolDeltaOf(c)).function).name # Null

\* The argument fragment of a well-formed tool-call delta.
FragmentOf(c) == OrElse(Get(Get(ToolDeltaOf(c)).function).arguments, <<>>)

EventsOfType(t) == SelectSeq(events, LAMBDA e : e.type = t)

IsPrefix(s, t) == Len(s) <= Len(t) /\ SubSeq(t, 1, Len(s)) = s

\* The transform step of the k-th received chunk threw.
ThrewAt(k) == status = "errored" /\ k = Len(received)

\* Exactly one finish event, and it is the last event.
FinishOnceLast ==
  /\ Len(EventsOfType("finish")) = 1
  /\ events[Len(events)].type = "finish"

(***************************************************************************)
(* C1                                                                      *)
(***************************************************************************)

\* C1: whenever the chunks of the response were consumed without the
\* transport aborting (flush has run, or a transform step has ended the
\* stream), exactly one finish event was emitted and it is the last event.
C1_FinishOnEveryUnabortedStream ==
  status \in {"flushed", "errored"} => FinishOnceLast

(***************************************************************************)
(* C2                                                                      *)
(***************************************************************************)

\* The indices of the received chunks whose first choice has a finish_reason.
FinishReasonChunks ==
  {k \in 1..Len(received) : ObservedFinishReason(received[k].chunk) # Null}

\* The normalized value of the last finish_reason observed, unknown if none.
LastObservedFinishReason ==
  IF FinishReasonChunks = {} THEN "unknown"
  ELSE LET k == CHOOSE j \in FinishReasonChunks :
                  \A i \in FinishReasonChunks : i <= j
       IN mapSparkFinishReason(ObservedFinishReason(received[k].chunk))

NoErrorChunk == \A k \in 1..Len(received) : ~IsErrorChunk(received[k].chunk)

\* C2: in a flushed chat stream without an error chunk, the finish event's
\* finishReason is the normalized value of the last non-null finish_reason
\* seen on a chunk's first choice, and unknown only if none was seen.
C2_ChatFinishReasonIsLastObserved ==
  (facade = "chat" /\ status = "flushed" /\ NoErrorChunk) =>
    EventsOfType("finish")[1].finishReason = LastObservedFinishReason

(***************************************************************************)
(* C3                                                                      *)
(***************************************************************************)

\* The concatenation of the argument fragments of the first k chunks.
FragmentsUpTo(k) == Concat([i \in 1..k |-> FragmentOf(received[i].chunk)])

\* C3: when the first k chunks of a chat stream are the deltas of one tool
\* call, and k is the first index at which their concatenated argument
\* fragments parse as JSON, a tool-call event is emitted in chunk k whose
\* args are that concatenation.
C3_ToolCallOnFirstParsableConcatenation ==
  facade = "chat" =>
    \A k \in 1..Len(received) :
      ( /\ \A i \in 1..k :
             /\ WellFormedToolDelta(received[i].chunk)
             /\ Get(ToolDeltaOf(received[i].chunk)).id
                  = Get(ToolDeltaOf(received[1].chunk)).id
        /\ isParsableJson(FragmentsUpTo(k))
        /\ \A j \in 1..(k - 1) : ~isParsableJson(FragmentsUpTo(j)) )
      => \E n \in 1..Len(events) :
           /\ events[n].type = "tool-call"
           /\ events[n].chunk = k
           /\ events[n].args = FragmentsUpTo(k)

(***************************************************************************)
(* C4                                                                      *)
(***************************************************************************)

\* C4: once slot 0 is marked finished, every later step leaves it finished
\* and its argument buffer is the earlier buffer with fragments appended.
C4_FinishedSlotNeverReopened ==
  [][ (toolCalls # <<>> /\ toolCalls[1].hasFinished) =>
        /\ toolCalls' # <<>>
        /\ toolCalls'[1].hasFinished
        /\ IsPrefix(toolCalls[1].arguments, toolCalls'[1].arguments) ]_vars

(***************************************************************************)
(* C5                                                                      *)
(***************************************************************************)

\* The tool call of the k-th chunk's delta was established by an earlier
\* delta with the same id.
EstablishedBefore(k) ==
  \E j \in 1..(k - 1) :
    /\ WellFormedToolDelta(received[j].chunk)
    /\ Get(ToolDeltaOf(received[j].chunk)).id = Get(ToolDeltaOf(received[k].chunk)).id

\* C5: of the tool-call deltas the transform receives, one whose type is
\* not "function" is fatal; one without a function name is fatal on first
\* sight of the call, and is accumulated, not rejected, once the call is
\* established.
C5_NameRequiredOnFirstSightOnly ==
  facade = "chat" =>
    \A k \in 1..Len(received) :
      ToolDeltaOf(received[k].chunk) # Null =>
        LET tc == Get(ToolDeltaOf(received[k].chunk)) IN
          /\ tc.type # Some("function") => ThrewAt(k)
          /\ ( tc.type = Some("function") /\ Get(tc.function).name = Null ) =>
               ( ThrewAt(k) <=> ~EstablishedBefore(k) )

(***************************************************************************)
(* C6                                                                      *)
(***************************************************************************)

\* Every error chunk received so far has its own error event.
ErrorChunksReported ==
  \A k \in 1..Len(received) :
    IsErrorChunk(received[k].chunk) =>
      \E n \in 1..Len(events) : events[n].type = "error" /\ events[n].chunk = k

\* C6: no transform step throws, whatever chunk it receives, and every
\* error chunk is reported as an error event.
C6_TransformNeverThrows == status # "errored" /\ ErrorChunksReported

(***************************************************************************)
(* C7                                                                      *)
(***************************************************************************)

ErrorChunks == {k \in 1..Len(received) : IsErrorChunk(received[k].chunk)}

Last(S) == CHOOSE j \in S : \A i \in S : i <= j

Min(S) == CHOOSE j \in S : \A i \in S : j <= i

\* C7 as stated: once an error chunk was received, the finish event of the
\* flushed stream carries "error", whatever arrived after it.
C7_FinishIsErrorAfterAnyErrorChunk ==
  /\ ErrorChunksReported
  /\ (status = "flushed" /\ ErrorChunks # {}) =>
       EventsOfType("finish")[1].finishReason = "error"

\* C7 amended: every error chunk has its error event; the finish event of a
\* flushed chat stream that received one carries "error"; that of a flushed
\* completion stream carries "error" unless a chunk after the last error
\* chunk has a finish_reason on its first choice, and then carries the
\* normalized value of the last such finish_reason.
C7_FinishIsErrorUnlessOverwritten ==
  /\ ErrorChunksReported
  /\ (status = "flushed" /\ ErrorChunks # {}) =>
       EventsOfType("finish")[1].finishReason =
         IF /\ facade = "completion"
            /\ FinishReasonChunks # {}
            /\ Last(FinishReasonChunks) > Last(ErrorChunks)
         THEN LastObservedFinishReason
         ELSE "error"

\* A flushed completion stream in which a chunk with a finish_reason arrived
\* after the last error chunk, so that the stored "error" was overwritten.
C7_Witness ==
  /\ status = "flushed"
  /\ facade = "completion"
  /\ ErrorChunks # {}
  /\ FinishReasonChunks # {}
  /\ Last(FinishReasonChunks) > Last(ErrorChunks)

(***************************************************************************)
(* C8                                                                      *)
(***************************************************************************)

\* The payloads of the text-delta events, in order.
TextDeltas ==
  LET ds == EventsOfType("text-delta") IN [n \in 1..Len(ds) |-> ds[n].textDelta]

\* The text fragments the valid non-error chunks of a history carry.
CarriedTexts(history) ==
  Concat([k \in 1..Len(history) |-> CarriedText(facade, history[k].chunk)])

\* C8: the text-delta payloads are, in arrival order and verbatim, the text
\* fragments of all valid non-error chunks of the response, also of those
\* that arrive after error chunks.
C8_TextDeltasAreAllCarriedTexts == TextDeltas = CarriedTexts(received \o dropped)

(***************************************************************************)
(* C9                                                                      *)
(***************************************************************************)

ValidChunks == {k \in 1..Len(received) : IsValidChunk(received[k].chunk)}
ParsedChunks == {k \in 1..Len(received) : received[k].chunk.success}

First(S) == CHOOSE j \in S : \A i \in S : j <= i

\* Exactly one response-metadata event, emitted in chunk k with that chunk's
\* id, model and created.
OneMetadataEventOf(k) ==
  LET ms == EventsOfType("response-metadata") IN
    /\ Len(ms) = 1
    /\ ms[1].chunk = k
    /\ ms[1].id = received[k].chunk.value.id
    /\ ms[1].modelId = received[k].chunk.value.model
    /\ ms[1].timestamp =
         IF received[k].chunk.value.created = Null THEN Null
         ELSE Some(1000 * Get(received[k].chunk.value.created))

\* C9 as stated: when some chunk parsed successfully, there is exactly one
\* response-metadata event, emitted with the first such chunk.
C9_MetadataOnFirstParsedChunk ==
  ParsedChunks # {} => OneMetadataEventOf(First(ParsedChunks))

\* C9 amended: when some chunk parsed successfully to a value without an
\* `error` key, there is exactly one response-metadata event, emitted with
\* the first such chunk and carrying its id, model and created; otherwise
\* (only parse failures and embedded errors) there is none.
C9_MetadataOnFirstValidChunk ==
  IF ValidChunks # {} THEN OneMetadataEventOf(First(ValidChunks))
  ELSE Len(EventsOfType("response-metadata")) = 0

\* Two valid chunks with different metadata after an embedded error.
C9_Witness ==
  /\ Len(received) = MaxChunks
  /\ received[1].chunk.success /\ IsErrorChunk(received[1].chunk)
  /\ IsValidChunk(received[2].chunk)
  /\ IsValidChunk(received[3].chunk)
  /\ received[2].chunk.value.id # received[3].chunk.value.id
  /\ Len(EventsOfType("response-metadata")) = 1

(***************************************************************************)
(* C10                                                                     *)
(***************************************************************************)

EventRank(e) ==
  CASE e.type = "response-metadata" -> 1
    [] e.type = "text-delta" -> 2
    [] e.type = "tool-call-delta" -> 3
    [] e.type = "tool-call" -> 4
    [] OTHER -> 0

\* C10: the events of the chat transform are in chunk arrival order, and
\* within one chunk in the order response-metadata, text-delta,
\* tool-call-delta(s), tool-call: no tool-call-delta follows a tool-call of
\* the same chunk.
C10_EventOrderWithinChunk ==
  facade = "chat" =>
    \A m, n \in 1..Len(events) :
      (m < n /\ events[m].type # "finish" /\ events[n].type # "finish") =>
        /\ events[m].chunk <= events[n].chunk
        /\ events[m].chunk = events[n].chunk =>
             EventRank(events[m]) <= EventRank(events[n])

(***************************************************************************)
(* C11                                                                     *)
(***************************************************************************)

\* The tool-call-delta events enqueued by the step of the k-th chunk.
ToolCallDeltasOf(k) ==
  SelectSeq(events, LAMBDA e : e.type = "tool-call-delta" /\ e.chunk = k)

\* C11: in the chat stream every chunk that carries a well-formed tool-call
\* delta emits exactly one tool-call-delta event, whose argsTextDelta is
\* the argument fragment of that chunk.
C11_OneToolCallDeltaPerFragment ==
  facade = "chat" =>
    \A k \in 1..Len(received) :
      WellFormedToolDelta(received[k].chunk) =>
        /\ Len(ToolCallDeltasOf(k)) = 1
        /\ ToolCallDeltasOf(k)[1].argsTextDelta = FragmentOf(received[k].chunk)

(***************************************************************************)
(* C12                                                                     *)
(***************************************************************************)

\* The received chunks whose value has a usage object that the transform
\* reads: valid non-error chunks with usage != null.
UsageChunks ==
  {k \in 1..Len(received) :
     IsValidChunk(received[k].chunk) /\ received[k].chunk.value.usage # Null}

UsageOf(k) == Get(received[k].chunk.value.usage)

\* The received payloads that are chunk objects with a usage object,
\* whether or not the chunk schema accepted them.
SentUsageChunks ==
  {k \in 1..Len(received) :
     received[k].raw.shape = "chunk" /\ received[k].raw.usage # Null}

SentUsageOf(k) == Get(received[k].raw.usage)

\* C12 as stated: in both streams the usage of the finish event is that of
\* the last chunk that carried a usage object, counter by counter; a
\* counter that chunk lacks, and every counter of a stream without a usage
\* object, is NaN.
C12_UsageIsLastSent ==
  status = "flushed" =>
    EventsOfType("finish")[1].usage =
      IF SentUsageChunks = {}
      THEN [promptTokens |-> NaN, completionTokens |-> NaN]
      ELSE [ promptTokens |->
               OrElse(SentUsageOf(Last(SentUsageChunks)).prompt_tokens, NaN),
             completionTokens |->
               OrElse(SentUsageOf(Last(SentUsageChunks)).completion_tokens, NaN) ]

\* C12 amended: the usage of the finish event is that of the last valid
\* chunk whose value has a usage object, counter by counter; a counter that
\* value lacks, and every counter of a stream without such a chunk, is NaN.
\* (A completion chunk whose usage object lacks a counter is not valid.)
C12_UsageIsLastWrite ==
  status = "flushed" =>
    EventsOfType("finish")[1].usage =
      IF UsageChunks = {}
      THEN [promptTokens |-> NaN, completionTokens |-> NaN]
      ELSE [ promptTokens |-> OrElse(UsageOf(Last(UsageChunks)).prompt_tokens, NaN),
             completionTokens |->
               OrElse(UsageOf(Last(UsageChunks)).completion_tokens, NaN) ]

\* A flushed stream with two usage chunks, the last of which lacks a
\* counter that the earlier one had: the finish event reports it as NaN.
C12_Witness ==
  /\ status = "flushed"
  /\ Cardinality(UsageChunks) >= 2
  /\ UsageOf(Last(UsageChunks)).prompt_tokens = Null
  /\ \E k \in UsageChunks : UsageOf(k).prompt_tokens # Null
  /\ EventsOfType("finish")[1].usage.promptTokens = NaN

(***************************************************************************)
(* C16                                                                     *)
(***************************************************************************)

\* The indexes (1-based) after the first at which the prompt has a system
\* message.
MisplacedSystems == {i \in 2..Len(prompt) : prompt[i].role = "system"}

\* What convertToSparkCompletionPrompt made of the prompt.
CompletionOutcome == Get(completionPrompt).outcome

RaisedInvalidPrompt ==
  ~CompletionOutcome.ok /\ CompletionOutcome.error = "InvalidPromptError"

\* The message is one the completion mapper rejects as unsupported: a tool
\* message, a user message with a part that is no text, an assistant
\* message with a tool-call part.
UnsupportedInCompletion(message) ==
  \/ message.role = "tool"
  \/ /\ message.role = "user"
     /\ \E i \in 1..Len(message.content) : message.content[i].type # "text"
  \/ /\ message.role = "assistant"
     /\ \E i \in 1..Len(message.content) : message.content[i].type = "tool-call"

\* C16 as stated: a prompt with a system message after index 0 always
\* raises InvalidPromptError, whatever its other messages are, and a prompt
\* without one never raises it.
C16_MisplacedSystemRaisesInvalidPrompt ==
  completionPrompt # Null => (RaisedInvalidPrompt <=> MisplacedSystems # {})

\* C16 amended: a prompt with a system message after index 0 always throws;
\* it throws InvalidPromptError exactly when no message before the first
\* such system message is unsupported, and otherwise the error of that
\* earlier message; a prompt without one never raises InvalidPromptError.
C16_MisplacedSystemAlwaysThrows ==
  completionPrompt # Null =>
    IF MisplacedSystems = {} THEN ~RaisedInvalidPrompt
    ELSE /\ ~CompletionOutcome.ok
         /\ RaisedInvalidPrompt <=>
              \A j \in 1..(Min(MisplacedSystems) - 1) :
                ~UnsupportedInCompletion(prompt[j])

\* A system message at the third position, behind two supported messages,
\* raised InvalidPromptError.
C16_Witness ==
  /\ completionPrompt # Null
  /\ Len(prompt) = 3
  /\ MisplacedSystems = {3}
  /\ prompt[1].role = "user"
  /\ RaisedInvalidPrompt

(***************************************************************************)
(* C17                                                                     *)
(***************************************************************************)

\* What convertToSparkChatMessages made of the prompt.
ChatOutcome == Get(chatMessages)

\* C17: convertToSparkChatMessages throws for every prompt that has a
\* system message after position 0.
C17_ChatRejectsMisplacedSystem ==
  (chatMessages # Null /\ MisplacedSystems # {}) => ~ChatOutcome.ok

(***************************************************************************)
(* C18                                                                     *)
(***************************************************************************)

\* The number of messages the chat mapper emits for a prompt message.
OutputsOf(message) == IF message.role = "tool" THEN Len(message.content) ELSE 1

RECURSIVE OutputsBefore(_)
\* The number of messages emitted for the first i - 1 prompt messages.
OutputsBefore(i) ==
  IF i <= 1 THEN 0 ELSE OutputsBefore(i - 1) + OutputsOf(prompt[i - 1])

\* The message emitted for the i-th prompt message (its first, for a tool
\* message).
OutputOf(i) == ChatOutcome.value[OutputsBefore(i) + 1]

TextPartsOf(content) == SelectSeq(content, LAMBDA part : part.type = "text")
ToolCallPartsOf(content) == SelectSeq(content, LAMBDA part : part.type = "tool-call")

\* The concatenation of the texts of the text parts, in order.
TextOf(content) ==
  Join([i \in 1..Len(TextPartsOf(content)) |-> TextPartsOf(content)[i].text])

AssistantMessages == {i \in 1..Len(prompt) : prompt[i].role = "assistant"}

\* C18: an assistant message is emitted with the concatenation of its text
\* parts as content and its last tool-call part as tool_calls; when it has
\* no tool-call part the emitted message has no tool_calls value.
C18_AssistantFoldWithoutPlaceholder ==
  (chatMessages # Null /\ ChatOutcome.ok) =>
    \A i \in AssistantMessages :
      LET calls == ToolCallPartsOf(prompt[i].content) IN
        /\ OutputOf(i).role = "assistant"
        /\ OutputOf(i).content = TextOf(prompt[i].content)
        /\ IF calls = <<>> THEN OutputOf(i).tool_calls = Null
           ELSE /\ OutputOf(i).tool_calls # Null
                /\ Get(OutputOf(i).tool_calls).function.name
                     = calls[Len(calls)].toolName

(***************************************************************************)
(* C19                                                                     *)
(***************************************************************************)

\* C19: an assistant message with more than one tool-call part is emitted
\* with exactly one tool call, whose name and arguments are the toolName
\* and the JSON text of the args of its last tool-call part.
C19_LastToolCallWins ==
  (chatMessages # Null /\ ChatOutcome.ok) =>
    \A i \in AssistantMessages :
      LET calls == ToolCallPartsOf(prompt[i].content) IN
        Len(calls) > 1 =>
          /\ OutputOf(i).tool_calls # Null
          /\ Get(OutputOf(i).tool_calls).type = "function"
          /\ Get(OutputOf(i).tool_calls).function =
               [ name |-> calls[Len(calls)].toolName,
                 arguments |-> JSONStringify(calls[Len(calls)].args) ]

\* An assistant message with the parts tool-call f, text, tool-call g was
\* emitted with the call of g and the JSON text of its args.
C19_Witness ==
  /\ chatMessages # Null
  /\ ChatOutcome.ok
  /\ Len(prompt) = 1
  /\ prompt[1].role = "assistant"
  /\ Len(prompt[1].content) = 3
  /\ prompt[1].content[1].type = "tool-call"
  /\ prompt[1].content[2].type = "text"
  /\ prompt[1].content[3].type = "tool-call"
  /\ prompt[1].content[1].toolName = "f"
  /\ prompt[1].content[3].toolName = "g"
  /\ Get(OutputOf(1).tool_calls).function = [name |-> "g", arguments |-> "[1,\"s\"]"]

(***************************************************************************)
(* C20                                                                     *)
(***************************************************************************)

ToolMessages == {i \in 1..Len(prompt) : prompt[i].role = "tool"}

\* C20: a tool message with K result entries is emitted as K tool messages
\* in entry order, the k-th with the toolCallId and the JSON text of the
\* result of the k-th entry; the other messages are emitted one each, in
\* the order of the prompt, around them.
C20_ToolFanOut ==
  (chatMessages # Null /\ ChatOutcome.ok) =>
    /\ Len(ChatOutcome.value) = OutputsBefore(Len(prompt) + 1)
    /\ \A i \in 1..Len(prompt) :
         IF i \in ToolMessages
         THEN \A k \in 1..Len(prompt[i].content) :
                LET emitted == ChatOutcome.value[OutputsBefore(i) + k] IN
                  /\ emitted.role = "tool"
                  /\ emitted.tool_call_id = prompt[i].content[k].toolCallId
                  /\ emitted.content = JSONStringify(prompt[i].content[k].result)
         ELSE OutputOf(i).role = prompt[i].role

\* A tool message with three distinct entries between a user and an
\* assistant message was emitted as user, three tool messages, assistant.
C20_Witness ==
  /\ chatMessages # Null
  /\ ChatOutcome.ok
  /\ Len(prompt) = 3
  /\ prompt[2].role = "tool"
  /\ Len(prompt[2].content) = 3
  /\ prompt[2].content[1].toolCallId = "c2"
  /\ prompt[2].content[2].toolCallId = "c3"
  /\ prompt[2].content[3].toolCallId = "c1"
  /\ Len(ChatOutcome.value) = 5
  /\ ChatOutcome.value[1].role = "user"
  /\ ChatOutcome.value[2].tool_call_id = "c2"
  /\ ChatOutcome.value[2].content = "\"s\""
  /\ ChatOutcome.value[3].content = "null"
  /\ ChatOutcome.value[4].content = "{\"ok\":1}"
  /\ ChatOutcome.value[5].role = "assistant"

(***************************************************************************)
(* C13                                                                     *)
(***************************************************************************)

\* doStream of a chat model with settings.simulateStreaming.
SimulatedCall ==
  call.facade = "chat" /\ call.method = "doStream" /\ call.simulateStreaming

SimulatedEventsOfType(t) ==
  SelectSeq(Get(simulatedStream).events, LAMBDA e : e.type = t)

\* C13: a simulated doStream call that has returned has issued exactly one
\* request, a non-streaming one, and its stream is closed and holds one
\* response-metadata, then text-deltas whose concatenation is the text of
\* the generate result (nothing for an absent text), then one tool-call per
\* tool call of the result, then one finish with the finish reason and the
\* usage of the result.
C13_SimulatedStreamReplaysResult ==
  (SimulatedCall /\ HasReturned) =>
    /\ Len(posts) = 1
    /\ ~posts[1].stream
    /\ result # Null
    /\ simulatedStream # Null
    /\ Get(simulatedStream).closed
    /\ LET emitted == Get(simulatedStream).events
           generated == Get(result)
           deltas == SimulatedEventsOfType("text-delta")
           calls == SimulatedEventsOfType("tool-call")
           toolCallsOfResult == OrElse(generated.toolCalls, <<>>)
       IN /\ emitted[1].type = "response-metadata"
          /\ Len(SimulatedEventsOfType("response-metadata")) = 1
          /\ emitted[Len(emitted)].type = "finish"
          /\ Len(SimulatedEventsOfType("finish")) = 1
          /\ Len(emitted) = 2 + Len(deltas) + Len(calls)
          /\ \A m, n \in 1..Len(emitted) :
               (emitted[m].type = "tool-call" /\ emitted[n].type = "text-delta")
                 => m > n
          /\ Join([i \in 1..Len(deltas) |-> deltas[i].textDelta])
               = OrElse(generated.text, "")
          /\ Len(calls) = Len(toolCallsOfResult)
          /\ \A i \in 1..Len(calls) :
               /\ calls[i].toolCallId = toolCallsOfResult[i].toolCallId
               /\ calls[i].toolName = toolCallsOfResult[i].toolName
               /\ calls[i].args = toolCallsOfResult[i].args
          /\ emitted[Len(emitted)].finishReason = generated.finishReason
          /\ emitted[Len(emitted)].usage = generated.usage

\* A simulated call returned for a response with the text "hi" and a tool
\* call: its stream holds response-metadata, text-delta, tool-call, finish.
C13_Witness ==
  /\ SimulatedCall
  /\ HasReturned
  /\ Get(result).text = Some("hi")
  /\ Get(result).toolCalls # Null
  /\ Len(Get(simulatedStream).events) = 4
  /\ Get(simulatedStream).events[2].textDelta = "hi"
  /\ Get(simulatedStream).events[3].type = "tool-call"
  /\ Get(simulatedStream).events[4].finishReason = "tool-calls"

(***************************************************************************)
(* C15                                                                     *)
(***************************************************************************)

\* C15: a call whose options make getArgs throw has issued no POST, in
\* every state: getArgs is what it throws from, and no request precedes it.
C15_NoPostWhenGetArgsThrows ==
  ~GetArgsOutcome.ok =>
    /\ posts = <<>>
    /\ rejection # Null => Get(rejection).step = "getArgs"

\* doStream of a completion model has thrown from getArgs for the mode
\* object-json, with a prompt the mapper accepts, and nothing was posted.
C15_Witness ==
  /\ call.facade = "completion"
  /\ call.method = "doStream"
  /\ call.options.mode.type = "object-json"
  /\ convertToSparkCompletionPrompt(call.options.prompt, call.options.inputFormat).ok
  /\ rejection = Some([step |-> "getArgs", error |-> "UnsupportedFunctionalityError"])
  /\ posts = <<>>

(***************************************************************************)
(* C14: concurrent doStream calls on one instance are independent          *)
(***************************************************************************)

\* The outcome of the stream of a call that is handed the first n of the
\* chunks, with no other call on the instance.
RECURSIVE RunAlone(_, _, _)
RunAlone(f, chunks, n) ==
  IF n = 0 THEN Outcome(AllocatedState(f), <<>>, FALSE)
  ELSE LET before == RunAlone(f, chunks, n - 1)
       IN IF before.thrown THEN before
          ELSE LET r == TransformStep(f, before.st, n, chunks[n].chunk)
               IN Outcome(r.st, before.out \o r.out, r.thrown)

\* The events call c produces when it is run alone on the chunks it received.
AloneEvents(c) ==
  LET r == RunAlone(facade, streams[c].received, Len(streams[c].received))
  IN r.out \o (IF streams[c].status = "flushed" THEN FlushEvents(facade, r.st)
               ELSE <<>>)

FinishEventsOf(c) == SelectSeq(streams[c].events, LAMBDA e : e.type = "finish")

\* C14: when the chunks of two doStream calls on one instance are processed
\* in any interleaving, the events of each stream (its finish reason, usage
\* and tool-call events among them) are the events the call produces when it
\* is run alone on the same chunks, and it throws exactly when that run does.
C14_ConcurrentCallsIndependent ==
  \A c \in Calls :
    /\ streams[c].events = AloneEvents(c)
    /\ (streams[c].status = "errored") =
         RunAlone(facade, streams[c].received, Len(streams[c].received)).thrown

\* C14 witness: on a chat instance a chunk of call 2 that carries usage is
\* processed between two tool-call deltas of call 1; both streams
\* are flushed, call 1 emitted its tool call and the usage of each finish
\* event is that of its own call.
C14_Witness ==
  /\ facade = "chat"
  /\ schedule = <<1, 2, 1>>
  /\ \A c \in Calls : streams[c].status = "flushed"
  /\ \E i \in 1..Len(streams[1].events) : streams[1].events[i].type = "tool-call"
  /\ FinishEventsOf(1)[1].usage = [promptTokens |-> NaN, completionTokens |-> 5]
  /\ FinishEventsOf(2)[1].usage = [promptTokens |-> 3, completionTokens |-> 2]

(***************************************************************************)
(* C24: mapSparkFinishReason is total and exact                            *)
(***************************************************************************)

\* The finish_reason of the first choice of the response body doGenerate read.
ResponseFinishReason == Get(response).body.choices[1].finish_reason

\* C24: the finish reason doGenerate returns is stop for "stop", length for
\* "length", tool-calls for "tool_calls" and unknown for every other
\* finish_reason of the response, absent, "" and "foo" included; it is never
\* error.
C24_FinishReasonMappingExact ==
  result # Null =>
    LET mapped == Get(result).finishReason
    IN /\ mapped \in {"stop", "length", "tool-calls", "unknown"}
       /\ mapped = "stop" <=> ResponseFinishReason = Some("stop")
       /\ mapped = "length" <=> ResponseFinishReason = Some("length")
       /\ mapped = "tool-calls" <=> ResponseFinishReason = Some("tool_calls")

\* C24 witness: a response whose finish_reason is the empty string was mapped
\* to unknown.
C24_Witness ==
  /\ result # Null
  /\ ResponseFinishReason = Some("")
  /\ Get(result).finishReason = "unknown"

(***************************************************************************)
(* C27: the finish reason of the completion stream                         *)
(***************************************************************************)

\* C27: in a flushed completion stream without an error chunk, the finish
\* event's finishReason is the normalized value of the last non-null
\* finish_reason seen on a chunk's first choice (a later chunk without one
\* does not reset it), and unknown if none was seen.
C27_CompletionFinishReasonIsLastObserved ==
  (facade = "completion" /\ status = "flushed" /\ NoErrorChunk) =>
    /\ Len(EventsOfType("finish")) = 1
    /\ EventsOfType("finish")[1].finishReason = LastObservedFinishReason

\* C27 witness: a flushed completion stream without an error chunk in which
\* two chunks carried different finish reasons and a chunk without one
\* followed; the finish event carries the second.
C27_Witness ==
  /\ facade = "completion"
  /\ status = "flushed"
  /\ NoErrorChunk
  /\ Len(received) = 3
  /\ FinishReasonChunks = {1, 2}
  /\ ObservedFinishReason(received[1].chunk) = Some("stop")
  /\ ObservedFinishReason(received[2].chunk) = Some("length")
  /\ EventsOfType("finish")[1].finishReason = "length"

(***************************************************************************)
(* C29: tool-call events per chunk of the chat stream                      *)
(***************************************************************************)

\* The tool-call events enqueued by the step of the k-th chunk.
ToolCallsOf(k) == SelectSeq(events, LAMBDA e : e.type = "tool-call" /\ e.chunk = k)

\* C29: in the chat stream the step of one chunk that carries a tool-call
\* delta emits at most one tool-call event, whatever the argument fragment.
C29_AtMostOneToolCallPerChunk ==
  facade = "chat" =>
    \A k \in 1..Len(received) : Len(ToolCallsOf(k)) <= 1

(***************************************************************************)
(* C25: prepareTools keeps the function tools and warns of the others      *)
(***************************************************************************)

\* The call is a chat call in regular mode with a non-empty tool list.
RegularWithTools ==
  /\ call # Null
  /\ call.facade = "chat"
  /\ call.options.mode.type = "regular"
  /\ call.options.mode.tools # Null
  /\ Len(Get(call.options.mode.tools)) > 0

InputTools == Get(call.options.mode.tools)

\* The positions in the input list of the tools of the given kind.
ToolPositions(providerDefined) ==
  {i \in 1..Len(InputTools) : (InputTools[i].type = "provider-defined") = providerDefined}

\* The j-th smallest element of a set of positions.
Nth(S, j) == CHOOSE i \in S : Cardinality({x \in S : x <= i}) = j

\* The unsupported-tool warnings getArgs returned.
ToolWarningsOf(warnings) == SelectSeq(warnings, LAMBDA w : w.type = "unsupported-tool")

\* The tool choice is absent or one of the four types of the interface.
ToolChoiceInInterface ==
  \/ call.options.mode.toolChoice = Null
  \/ Get(call.options.mode.toolChoice).type \in {"auto", "none", "required", "tool"}

\* C25: for a non-empty tool list, the tools of the request are the function
\* tools of the input in input order with name, description and parameters
\* unchanged, there is one unsupported-tool warning per provider-defined
\* tool in input order, and getArgs throws only for a prompt the converter
\* rejects or a tool choice outside the interface, never for a
\* provider-defined tool.
C25_FunctionToolsPassThrough ==
  RegularWithTools =>
    /\ args # Null =>
         LET tools == Get(Get(args).args.tools)
             toolWarnings == ToolWarningsOf(Get(args).warnings)
             plain == ToolPositions(FALSE)
             provided == ToolPositions(TRUE)
         IN /\ Get(args).args.tools # Null
            /\ Len(tools) = Cardinality(plain)
            /\ \A j \in 1..Len(tools) :
                 LET tool == InputTools[Nth(plain, j)]
                 IN /\ tools[j].type = "function"
                    /\ tools[j].function.name = tool.name
                    /\ tools[j].function.description = tool.description
                    /\ tools[j].function.parameters = tool.parameters
            /\ Len(toolWarnings) = Cardinality(provided)
            /\ \A j \in 1..Len(toolWarnings) :
                 toolWarnings[j].tool = InputTools[Nth(provided, j)]
    /\ (rejection # Null /\ Get(rejection).step = "getArgs") =>
         \/ ~convertToSparkChatMessages(call.options.prompt).ok
         \/ ~ToolChoiceInInterface
    /\ (pc > 1 /\ convertToSparkChatMessages(call.options.prompt).ok
          /\ ToolChoiceInInterface) => args # Null

\* C25 witness: getArgs returned for a list that alternates provider-defined
\* and function tools, one of them with a description: two tools, two
\* warnings.
C25_Witness ==
  /\ RegularWithTools
  /\ args # Null
  /\ Len(InputTools) = 4
  /\ Len(Get(Get(args).args.tools)) = 2
  /\ Get(Get(args).args.tools)[1].function.description = Some("d")
  /\ Len(ToolWarningsOf(Get(args).warnings)) = 2

(***************************************************************************)
(* C30: the tools of the request are undefined or a non-empty list         *)
(***************************************************************************)

\* C30: in regular mode the tools value prepareTools returned, which the
\* chat model puts in the request body, is undefined or a non-empty list.
C30_ToolsUndefinedOrNonEmpty ==
  (call # Null /\ call.facade = "chat" /\ call.options.mode.type = "regular"
     /\ args # Null) =>
    \/ Get(args).args.tools = Null
    \/ Len(Get(Get(args).args.tools)) > 0

(***************************************************************************)
(* C26: the completion model rejects tools, tool choice and object modes   *)
(***************************************************************************)

CompletionCall == call # Null /\ call.facade = "completion"

\* The mode asks for something only the chat model does.
ChatOnlyMode ==
  LET mode == call.options.mode
  IN \/ mode.type \in {"object-json", "object-tool"}
     \/ /\ mode.type = "regular"
        /\ \/ mode.tools # Null /\ Len(Get(mode.tools)) > 0
           \/ mode.toolChoice # Null

\* getArgs has run to its end or thrown.
GetArgsDone == pc > 1 \/ rejection # Null

\* What the converter makes of the prompt of the call.
ConvertedPrompt ==
  convertToSparkCompletionPrompt(call.options.prompt, call.options.inputFormat)

\* The warnings the settings of the call ask for.
ExpectedWarnings ==
  (IF call.options.topK # Null
   THEN <<[type |-> "unsupported-setting", setting |-> "topK"]>> ELSE <<>>)
  \o (IF call.options.responseFormat # Null
      THEN <<[type |-> "unsupported-setting", setting |-> "responseFormat"]>>
      ELSE <<>>)

\* C26 as stated: whenever the mode is an object mode, or regular with a
\* non-empty tools list or a tool choice, getArgs of the completion model
\* throws UnsupportedFunctionalityError.
C26_ChatOnlyModeRaisesUnsupported ==
  (CompletionCall /\ GetArgsDone /\ ChatOnlyMode) =>
    rejection = Some([step |-> "getArgs", error |-> "UnsupportedFunctionalityError"])

\* C26, amended: in those modes getArgs always throws, the error of the
\* prompt converter if the prompt does not convert and
\* UnsupportedFunctionalityError otherwise; it returns only for regular mode
\* with neither tools nor tool choice, and does so for every prompt that
\* converts, with a warning for topK and one for a non-text responseFormat
\* and nothing else.
C26_ChatOnlyModeAlwaysThrows ==
  (CompletionCall /\ GetArgsDone) =>
    /\ ChatOnlyMode =>
         rejection = Some([ step |-> "getArgs",
                            error |-> IF ConvertedPrompt.ok
                                      THEN "UnsupportedFunctionalityError"
                                      ELSE ConvertedPrompt.error ])
    /\ args # Null => call.options.mode.type = "regular" /\ ~ChatOnlyMode
    /\ (call.options.mode.type = "regular" /\ ~ChatOnlyMode /\ ConvertedPrompt.ok) =>
         /\ args # Null
         /\ Get(args).warnings = ExpectedWarnings

\* C26 witness: the completion model was asked for object-tool mode with
\* topK and a json responseFormat on a prompt that converts, and getArgs
\* threw UnsupportedFunctionalityError.
C26_Witness ==
  /\ CompletionCall
  /\ call.options.mode.type = "object-tool"
  /\ call.options.topK # Null
  /\ call.options.responseFormat # Null
  /\ ConvertedPrompt.ok
  /\ rejection = Some([step |-> "getArgs", error |-> "UnsupportedFunctionalityError"])

(***************************************************************************)
(* C21: every emitted message carries the metadata of its prompt message   *)
(***************************************************************************)

\* The positions in the output of the messages emitted for the i-th prompt
\* message.
OutputPositions(i) == (OutputsBefore(i) + 1)..(OutputsBefore(i) + OutputsOf(prompt[i]))

\* The object carries every key of the bag with the value of the bag.
Carries(object, bag) ==
  \A key \in DOMAIN bag : key \in DOMAIN object /\ object[key] = bag[key]

\* C21: every message convertToSparkChatMessages emits carries the spark
\* metadata attached to the prompt message it was produced from, whatever
\* the role and the content, a user message with a single text part and the
\* messages of a tool fan-out included.
C21_MessageMetadataCarried ==
  (chatMessages # Null /\ ChatOutcome.ok) =>
    \A i \in 1..Len(prompt) :
      \A j \in OutputPositions(i) :
        Carries(ChatOutcome.value[j], getSparkMetadata(prompt[i]))

(***************************************************************************)
(* C22: metadata is merged last, its keys win                              *)
(***************************************************************************)

\* The user message takes the single-text path.
SingleText(content) == Len(content) = 1 /\ content[1].type = "text"

\* Every object emitted for the i-th prompt message carries the keys of the
\* bag merged into it with the values of the bag: the message itself, the
\* content parts of a user message and the tool call of an assistant
\* message (where the message's bag did not replace them).
MetadataWinsIn(i) ==
  LET message == prompt[i]
      bag == getSparkMetadata(message)
      content == message.content
      emitted == OutputOf(i)
  IN CASE message.role = "system" -> Carries(emitted, bag)
       [] message.role = "user" ->
            IF SingleText(content) THEN Carries(emitted, getSparkMetadata(content[1]))
            ELSE /\ Carries(emitted, bag)
                 /\ "content" \notin DOMAIN bag =>
                      \A n \in 1..Len(content) :
                        Carries(emitted.content[n], getSparkMetadata(content[n]))
       [] message.role = "assistant" ->
            /\ Carries(emitted, bag)
            /\ ("tool_calls" \notin DOMAIN bag /\ ToolCallPartsOf(content) # <<>>) =>
                 Carries(Get(emitted.tool_calls),
                         getSparkMetadata(ToolCallPartsOf(content)
                                            [Len(ToolCallPartsOf(content))]))
       [] message.role = "tool" ->
            \A n \in 1..Len(content) :
              Carries(ChatOutcome.value[OutputsBefore(i) + n],
                      getSparkMetadata(content[n]))

\* C22: in every object convertToSparkChatMessages emits, a key of the
\* spark bag merged into it that collides with a field the mapper builds
\* (role, content, tool_calls, tool_call_id, type, text) has the value of
\* the bag.
C22_MetadataWinsCollisions ==
  (chatMessages # Null /\ ChatOutcome.ok) =>
    \A i \in 1..Len(prompt) : MetadataWinsIn(i)

\* C22 witness: a user message of two parts whose bag has a role, with a
\* text part whose bag has a type and a text: the emitted message and part
\* have the values of the bags.
C22_Witness ==
  /\ chatMessages # Null
  /\ ChatOutcome.ok
  /\ Len(prompt) = 1
  /\ prompt[1].role = "user"
  /\ Len(prompt[1].content) = 2
  /\ prompt[1].providerMetadata = MetadataOfIdentity
  /\ prompt[1].content[1].type = "text"
  /\ prompt[1].content[1].providerMetadata = MetadataOfIdentity
  /\ OutputOf(1).role = "m-role"
  /\ OutputOf(1).content[1].type = "m-type"
  /\ OutputOf(1).content[1].text = "m-text"

(***************************************************************************)
(* C23: the single-user-text fast path                                     *)
(***************************************************************************)

\* The prompt is exactly one user message with exactly one text part.
SingleUserText ==
  /\ Len(prompt) = 1
  /\ prompt[1].role = "user"
  /\ SingleText(prompt[1].content)

\* C23: for a prompt that is one user message with one text part,
\* convertToSparkCompletionPrompt with inputFormat "prompt" returns that
\* text unchanged and no stop sequences; with inputFormat "messages" it
\* returns the labelled transcript of the message and the one stop sequence
\* "\nuser:".
C23_SingleUserTextFastPath ==
  (completionPrompt # Null /\ SingleUserText) =>
    LET text == prompt[1].content[1].text
        inputFormat == Get(completionPrompt).inputFormat
    IN /\ CompletionOutcome.ok
       /\ inputFormat = "prompt" =>
            /\ CompletionOutcome.value.prompt = text
            /\ CompletionOutcome.value.stopSequences = Null
       /\ inputFormat = "messages" =>
            /\ CompletionOutcome.value.prompt =
                 "user:\n" \o text \o "\n\n" \o "assistant:\n"
            /\ CompletionOutcome.value.stopSequences = Some(<<"\nuser:">>)

\* C23 witness: the text of a single user text part came back as the prompt
\* with inputFormat "prompt", without stop sequences.
C23_Witness ==
  /\ completionPrompt # Null
  /\ SingleUserText
  /\ Get(completionPrompt).inputFormat = "prompt"
  /\ CompletionOutcome.ok
  /\ CompletionOutcome.value.prompt = "v"
  /\ CompletionOutcome.value.stopSequences = Null

(***************************************************************************)
(* C28: the API key is resolved when headers are built                     *)
(***************************************************************************)

\* What the n-th headers() call has to return, given the options of its
\* provider and the environment at the time of the call.
ExpectedHeaders(n) ==
  LET options == providers[models[built[n].model].provider]
      env == loads[n].environment
      custom == OrElse(options.headers, EmptyObject)
  IN IF options.apiKey # Null
     THEN Returned(custom @@ [Authorization |-> "Bearer " \o Get(options.apiKey)])
     ELSE IF env # Null
     THEN Returned(custom @@ [Authorization |-> "Bearer " \o Get(env)])
     ELSE Thrown("LoadAPIKeyError")

\* C28: createSparkProvider and the model factories never load the API key;
\* every headers() call loads it once, from the apiKey option of its
\* provider with the fallback environment variable SPARK_API_KEY, and
\* returns the key it resolved at that moment.
C28_KeyResolvedAtHeaders ==
  /\ \A n \in 1..Len(loads) : loads[n].during = "headers"
  /\ Len(loads) = Len(built)
  /\ \A n \in 1..Len(built) :
       /\ loads[n].apiKey = providers[models[built[n].model].provider].apiKey
       /\ loads[n].environmentVariableName = "SPARK_API_KEY"
       /\ built[n].outcome = ExpectedHeaders(n)

\* C28 witness: a model of a provider without apiKey option built its
\* headers twice, the environment variable changed in between, and the two
\* Authorization headers carry the two values.
C28_Witness ==
  /\ Len(built) = 2
  /\ built[1].model = built[2].model
  /\ built[1].outcome.ok
  /\ built[2].outcome.ok
  /\ built[1].outcome.value.Authorization = "Bearer env-key-1"
  /\ built[2].outcome.value.Authorization = "Bearer env-key-2"

====
